---- MODULE Spec2Model ----
(***************************************************************************)
(* Model of the photo-kiosk server (src/unnamed/part_002, the same code as *)
(* src/server/index.js): ticket allocation by scanning the Drive folders,  *)
(* the upload / ping / visit handlers, the admin photo actions and the     *)
(* event log kept in the session sheet.                                    *)
(*                                                                         *)
(* Strings are sequences of one-character strings.  A Drive file id is the *)
(* position of the file in the sequence files.  An instant is a number of  *)
(* seconds since the Unix epoch.                                           *)
(***************************************************************************)
EXTENDS Integers, Sequences, FiniteSets, TLC

(***************************************************************************)
(* Bounds of the model.                                                    *)
(***************************************************************************)
\* files the Drive can hold
MaxFiles == 3
\* artifacts the uploads may create in one run
MaxUploads == 2
\* rows (header included) the session sheet can hold
MaxRows == 3
\* items per page of a Drive listing (pageSize: 100 in the code, scaled down)
PageSize == 1

\* concurrent HTTP requests in flight
Slots == {1, 2}

(***************************************************************************)
(* Strings and numbers.                                                    *)
(***************************************************************************)
DigitChars == <<"0", "1", "2", "3", "4", "5", "6", "7", "8", "9">>

IsDigit(c) == \E i \in 1..10 : DigitChars[i] = c

DigitVal(c) == (CHOOSE i \in 1..10 : DigitChars[i] = c) - 1

\* String(n) for a natural number n
RECURSIVE NumToStr(_)
NumToStr(n) ==
  IF n < 10 THEN <<DigitChars[n + 1]>>
  ELSE NumToStr(n \div 10) \o <<DigitChars[(n % 10) + 1]>>

\* s.padStart(len, '0')
RECURSIVE PadStart(_, _)
PadStart(s, len) == IF Len(s) >= len THEN s ELSE PadStart(<<"0">> \o s, len)

\* parseInt(s, 10) for a string of digits
RECURSIVE ParseInt(_)
ParseInt(s) ==
  IF s = <<>> THEN 0
  ELSE 10 * ParseInt(SubSeq(s, 1, Len(s) - 1)) + DigitVal(s[Len(s)])

\* number of consecutive digits of s from position i on (what \d+ consumes)
RECURSIVE DigitRun(_, _)
DigitRun(s, i) ==
  IF i <= Len(s) /\ IsDigit(s[i]) THEN 1 + DigitRun(s, i + 1) ELSE 0

Max2(a, b) == IF a >= b THEN a ELSE b

\* str.startsWith(prefix)
startsWith(str, prefix) ==
  Len(prefix) <= Len(str) /\ SubSeq(str, 1, Len(prefix)) = prefix

\* str.split(sep), sep one character
RECURSIVE Split(_, _, _)
Split(str, sep, part) ==
  IF str = <<>> THEN <<part>>
  ELSE IF Head(str) = sep THEN <<part>> \o Split(Tail(str), sep, <<>>)
  ELSE Split(Tail(str), sep, Append(part, Head(str)))

\* str.trim() of a string of letters and spaces
RECURSIVE Trim(_)
Trim(str) ==
  IF str = <<>> THEN str
  ELSE IF Head(str) = " " THEN Trim(Tail(str))
  ELSE IF str[Len(str)] = " " THEN Trim(SubSeq(str, 1, Len(str) - 1))
  ELSE str

(***************************************************************************)
(* Clock and Date: Puerto Rico civil time as the code derives it from the  *)
(* host's local time.                                                      *)
(***************************************************************************)
\* the instants the clock is read at
ClockInstants == {1764727531}

\* civil date of a day number (days since 1970-01-01)
CivilFromDays(days) ==
  LET z   == days + 719468
      era == z \div 146097
      doe == z - era * 146097
      yoe == (doe - doe \div 1460 + doe \div 36524 - doe \div 146096) \div 365
      doy == doe - (365 * yoe + yoe \div 4 - yoe \div 100)
      mp  == (5 * doy + 2) \div 153
      d   == doy - (153 * mp + 2) \div 5 + 1
      m   == IF mp < 10 THEN mp + 3 ELSE mp - 9
      y   == yoe + era * 400 + (IF m <= 2 THEN 1 ELSE 0)
  IN [year |-> y, month |-> m, date |-> d]

\* the time zones of the host (the process's TZ) considered
Zones == {"UTC", "America/Puerto_Rico", "America/New_York", "Europe/Berlin"}

\* daylight saving time of America/New_York in 2025: from 2025-03-09T07:00:00Z
\* to 2025-11-02T06:00:00Z (the instants of this model lie in 2025)
DstStart == 1741503600
DstEnd == 1762063200

\* daylight saving time of Europe/Berlin in 2025: from 2025-03-30T01:00:00Z
\* to 2025-10-26T01:00:00Z
BerlinDstStart == 1743296400
BerlinDstEnd == 1761440400

\* date.getTimezoneOffset() on a host in zone z, date the instant t: minutes
\* that local time is behind UTC
getTimezoneOffset(z, t) ==
  CASE z = "UTC" -> 0
    [] z = "America/Puerto_Rico" -> 240
    [] z = "America/New_York" ->
         IF t >= DstStart /\ t < DstEnd THEN 240 ELSE 300
    [] z = "Europe/Berlin" ->
         IF t >= BerlinDstStart /\ t < BerlinDstEnd THEN -120 ELSE -60

\* a Date by its getTime() (in seconds) and its local-time getters on a host
\* in zone z
DateOf(z, t) ==
  LET loc == t - 60 * getTimezoneOffset(z, t)
      c   == CivilFromDays(loc \div 86400)
      sod == loc % 86400
  IN [time |-> t, year |-> c.year, month |-> c.month, date |-> c.date,
      hours |-> sod \div 3600, minutes |-> (sod % 3600) \div 60,
      seconds |-> sod % 60]

\* toPR(date) on a host in zone z, date the instant t
toPRIn(z, t) == DateOf(z, t + 60 * getTimezoneOffset(z, t) - 4 * 60 * 60)

\* the host's time zone (fixed by the environment)
VARIABLE zone

\* the Date returned by toPR(date), date the instant t
toPR(t) == toPRIn(zone, t)

\* the Date returned by getPRDate() when the clock reads t
getPRDate(t) == toPRIn(zone, t)

\* d.setHours(hours, minutes, seconds, ms) on a host in zone z: the instant
\* that reads this wall time on the local date of d
setHoursIn(z, d, hours, minutes, seconds) ==
  LET loc   == d.time - 60 * getTimezoneOffset(z, d.time)
      wall  == (loc \div 86400) * 86400 + hours * 3600 + minutes * 60 + seconds
      guess == wall + 60 * getTimezoneOffset(z, d.time)
  IN DateOf(z, wall + 60 * getTimezoneOffset(z, guess))

\* getTodayPRRangeUtc() on a host in zone z when the clock reads now; endUtc
\* is a whole second followed by endMs milliseconds
TodayPRRangeUtcIn(z, now) ==
  LET nowPR   == toPRIn(z, now)
      startPR == setHoursIn(z, nowPR, 0, 0, 0)
      endPR   == setHoursIn(z, nowPR, 23, 59, 59)
  IN [startUtc |-> startPR.time + 4 * 60 * 60,
      endUtc   |-> endPR.time + 4 * 60 * 60,
      endMs    |-> 999]


Pad2(n) == PadStart(NumToStr(n), 2)

\* "DD/MM/YYYY HH:MM:SS"
formatPRDateTimeShort(prDate) ==
  Pad2(prDate.date) \o <<"/">> \o Pad2(prDate.month) \o <<"/">>
    \o NumToStr(prDate.year) \o <<" ">> \o Pad2(prDate.hours) \o <<":">>
    \o Pad2(prDate.minutes) \o <<":">> \o Pad2(prDate.seconds)

(***************************************************************************)
(* Ticket labels and file names.                                           *)
(***************************************************************************)
\* a variant that keeps the last three digits only
formatTicketLabelSlice(counter) ==
  LET padded == PadStart(NumToStr(counter), 3)
  IN <<"T">> \o SubSeq(padded, Len(padded) - 2, Len(padded))

formatTicketLabel(counter) == <<"T">> \o PadStart(NumToStr(counter), 3)

ticketDisplayOf(counter) == <<"#">> \o PadStart(NumToStr(counter), 3)

buildServerFileName(counter, t) ==
  LET prNow == getPRDate(t)
      yy    == LET s == NumToStr(prNow.year) IN SubSeq(s, Len(s) - 1, Len(s))
  IN formatTicketLabel(counter) \o <<"-">> \o Pad2(prNow.date) \o <<"-">>
       \o Pad2(prNow.month) \o <<"-">> \o yy \o <<"-">> \o Pad2(prNow.hours)
       \o <<"-">> \o Pad2(prNow.minutes)
       \o <<"-", "P", "R", ".", "j", "p", "e", "g">>

\* a variant that accepts two digits after the T
MatchNewShort(name) ==
  IF Len(name) >= 1 /\ name[1] = "T"
  THEN LET k == DigitRun(name, 2)
       IN IF k >= 2 /\ Len(name) >= k + 2 /\ name[k + 2] = "-"
          THEN SubSeq(name, 2, k + 1) ELSE <<>>
  ELSE <<>>

\* /^T(\d{3,})-/ : the captured digits, or <<>> when the name does not match
MatchNew(name) ==
  IF Len(name) >= 1 /\ name[1] = "T"
  THEN LET k == DigitRun(name, 2)
       IN IF k >= 3 /\ Len(name) >= k + 2 /\ name[k + 2] = "-"
          THEN SubSeq(name, 2, k + 1) ELSE <<>>
  ELSE <<>>

\* /^(\d{2,})_/ : the captured digits, or <<>> when the name does not match
MatchOld(name) ==
  LET k == DigitRun(name, 1)
  IN IF k >= 2 /\ Len(name) >= k + 1 /\ name[k + 1] = "_"
     THEN SubSeq(name, 1, k) ELSE <<>>

\* the index one file name contributes to the maximum (0: none)
NameIndex(name) ==
  IF name = <<>> THEN 0
  ELSE IF MatchNew(name) # <<>> THEN ParseInt(MatchNew(name))
  ELSE IF MatchOld(name) # <<>> THEN ParseInt(MatchOld(name))
  ELSE 0

(***************************************************************************)
(* State.                                                                  *)
(***************************************************************************)
VARIABLES
  calc,           \* the last direct call of a function and what it returned
  files,          \* the Drive: sequence of files, the file id is the position
  sheet,          \* the session sheet: sequence of rows, row 1 the header
  appEnabled,     \* let appEnabled
  mailConfigured, \* mailTransporter # null (fixed by the environment)
  req,            \* the HTTP requests, one per slot
  failed          \* history: number of the last upload whose create failed

\* the admin-configurable settings and their sheet
VARIABLES
  appSettings,             \* let appSettings
  settingsLoadedFromSheet, \* let settingsLoadedFromSheet
  settingsSheet,           \* the settings sheet (key/value rows)
  hyd,                     \* the calls of hydrateSettingsFromSheet
  adminUpdate,             \* the POST /admin/settings request
  reads,                   \* history: how often a hydration read the sheet
  applies                  \* history: how often a hydration applied a patch

settingsVars ==
  <<appSettings, settingsLoadedFromSheet, settingsSheet, hyd, adminUpdate,
    reads, applies>>

\* the admin login
VARIABLES
  ipTracker,  \* const ipTracker: IP -> { attempts, blockedUntil }
  clock,      \* Date.now(), in minutes
  tokens,     \* the session tokens issued: { ip, iat }
  authLog,    \* history: the last answer of the admin login or middleware
  wrong       \* history: wrong codes of an IP since its last login or unblock

authVars == <<ipTracker, clock, tokens, authLog, wrong>>

vars ==
  <<zone, calc, files, sheet, appEnabled, mailConfigured, req, failed,
    settingsVars, authVars>>

PENDING == "PENDING"
APPROVED == "APPROVED"
Folders == {PENDING, APPROVED}

\* the four listings of one allocation: folder x trashed flag
Partitions == Folders \X BOOLEAN

(***************************************************************************)
(* The Drive.                                                              *)
(***************************************************************************)
\* origin and ticket are history: who put the file there and, for an upload,
\* the number its allocation returned
File(name, parents, trashed, origin, ticket) ==
  [name |-> name, parents |-> parents, trashed |-> trashed,
   origin |-> origin, ticket |-> ticket]

\* folder contents found at start-up (files put there outside this server)
InitialDrives ==
  { <<>>,
    << File(<<"T", "1", "2", "-", "x">>, {PENDING}, FALSE, "external", 0),
       File(<<"0", "7", "_", "x">>, {APPROVED}, TRUE, "external", 0) >>,
    << File(<<"T", "9", "9", "9", "-", "a">>, {PENDING}, FALSE, "external", 0) >> }

\* q: '<folder>' in parents and trashed = <flag>
Matches(i, folder, flag) ==
  folder \in files[i].parents /\ files[i].trashed = flag

SetMin(S) == CHOOSE x \in S : \A y \in S : x <= y
SetMax(S) == CHOOSE x \in S : \A y \in S : x >= y

\* the k smallest elements of a set of numbers
RECURSIVE Smallest(_, _)
Smallest(S, k) ==
  IF k = 0 \/ S = {} THEN {}
  ELSE {SetMin(S)} \cup Smallest(S \ {SetMin(S)}, k - 1)

\* the elements of a set of numbers, largest first
RECURSIVE Descending(_)
Descending(S) ==
  IF S = {} THEN <<>> ELSE <<SetMax(S)>> \o Descending(S \ {SetMax(S)})

\* a variant whose answer never carries a continuation token
ListPageFirstOnly(folder, flag, token) ==
  LET rest == {i \in 1..Len(files) : i > token /\ Matches(i, folder, flag)}
  IN [ids |-> Smallest(rest, PageSize), nextPageToken |-> 0]

\* drive.files.list in creation order: one page after the page token
\* (token 0: first page; nextPageToken 0: no further page)
ListPage(folder, flag, token) ==
  LET rest == {i \in 1..Len(files) : i > token /\ Matches(i, folder, flag)}
      page == Smallest(rest, PageSize)
  IN [ids |-> page,
      nextPageToken |-> IF rest = page THEN 0 ELSE SetMax(page)]

\* drive.files.list orderBy createdTime desc (newest first)
ListPageDesc(folder, token) ==
  LET rest == {i \in 1..Len(files) :
                 (token = 0 \/ i < token) /\ Matches(i, folder, FALSE)}
      all  == Descending(rest)
      page == SubSeq(all, 1, IF Len(all) < PageSize THEN Len(all) ELSE PageSize)
  IN [ids |-> page,
      nextPageToken |-> IF Len(all) = Len(page) THEN 0 ELSE page[Len(page)]]

\* maxIndex after the for loop over one page
RECURSIVE PageMax(_, _)
PageMax(ids, maxIndex) ==
  IF ids = {} THEN maxIndex
  ELSE LET i   == SetMin(ids)
           idx == NameIndex(files[i].name)
       IN PageMax(ids \ {i}, IF idx > maxIndex THEN idx ELSE maxIndex)

\* a variant that leaves the trashed listing out
FolderMaxActive(scan, folder) == scan[<<folder, FALSE>>].maxIndex

\* getMaxIndexInFolderIncludingTrash from the two results of one folder
FolderMax(scan, folder) ==
  Max2(scan[<<folder, FALSE>>].maxIndex, scan[<<folder, TRUE>>].maxIndex)

\* a variant that returns the maximum itself
NextPhotoIndexSame(scan) ==
  Max2(FolderMax(scan, PENDING), FolderMax(scan, APPROVED))

\* getNextPhotoIndex from the four results
NextPhotoIndex(scan) == Max2(FolderMax(scan, PENDING), FolderMax(scan, APPROVED)) + 1

(***************************************************************************)
(* The session sheet.                                                      *)
(***************************************************************************)
\* a timestamp string: what it is and the instant new Date(string) gives
Iso(t) == [kind |-> "iso", t |-> t]
BadTs == [kind |-> "bad", t |-> 0]
NoTs == [kind |-> "absent", t |-> 0]

\* a JSON value as seen by getNewsletterFlag: null/undefined or String(value)
NullValue == [isNull |-> TRUE, str |-> <<>>]
StrValue(str) == [isNull |-> FALSE, str |-> str]

UpperChars ==
  <<"A", "D", "E", "F", "I", "L", "N", "O", "R", "S", "T", "U", "Y", "Í">>
LowerChars ==
  <<"a", "d", "e", "f", "i", "l", "n", "o", "r", "s", "t", "u", "y", "í">>

ToLowerChar(c) ==
  IF \E i \in 1..Len(UpperChars) : UpperChars[i] = c
  THEN LowerChars[CHOOSE i \in 1..Len(UpperChars) : UpperChars[i] = c]
  ELSE c

ToLowerCase(str) == [i \in 1..Len(str) |-> ToLowerChar(str[i])]

\* a variant that compares without lower-casing
getNewsletterFlagExact(value) ==
  IF value.isNull THEN ""
  ELSE LET val == value.str
       IN IF val \in {<<"t", "r", "u", "e">>, <<"1">>, <<"s", "í">>,
                      <<"s", "i">>, <<"y">>} THEN "Y"
          ELSE IF val \in {<<"f", "a", "l", "s", "e">>, <<"0">>, <<"n", "o">>,
                           <<"n">>} THEN "N"
          ELSE ""

getNewsletterFlag(value) ==
  IF value.isNull THEN ""
  ELSE LET val == ToLowerCase(value.str)
       IN IF val \in {<<"t", "r", "u", "e">>, <<"1">>, <<"s", "í">>,
                      <<"s", "i">>, <<"y">>} THEN "Y"
          ELSE IF val \in {<<"f", "a", "l", "s", "e">>, <<"0">>, <<"n", "o">>,
                           <<"n">>} THEN "N"
          ELSE ""

SESSION_SHEET_HEADERS ==
  [utc |-> BadTs, pr |-> <<>>, type |-> "event_type",
   email |-> <<"e", "m", "a", "i", "l">>,
   sessionId |-> "session_id", country |-> "country", region |-> "region",
   lastName |-> "last_name", newsletter |-> "newsletter", ticket |-> <<>>]

NoRow ==
  [utc |-> NoTs, pr |-> <<>>, type |-> "", email |-> <<>>, sessionId |-> "",
   country |-> "", region |-> "", lastName |-> "", newsletter |-> "",
   ticket |-> <<>>]

\* the arguments of logEventToSheet left at their defaults
NoArgs ==
  [email |-> <<>>, sessionId |-> "", country |-> "", region |-> "",
   lastName |-> "", newsletter |-> NullValue, ticket |-> <<>>,
   timestampUtc |-> NoTs]

\* the spreadsheet of the session log: the environment's, or the built-in one
SESSION_SHEET_ID == "1bPctG2H31Ix2N8jVNgFTgiB3FVWyr6BudXNY8YOD4GE"

\* a variant that appends whatever timestamp it is given
logEventRowUnchecked(eventType, args, now) ==
  LET utcStr == IF args.timestampUtc.kind = "absent" THEN Iso(now)
                ELSE args.timestampUtc
  IN [utc |-> utcStr,
      pr |-> formatPRDateTimeShort(toPR(utcStr.t)),
      type |-> eventType,
      email |-> args.email,
      sessionId |-> args.sessionId,
      country |-> args.country,
      region |-> args.region,
      lastName |-> args.lastName,
      newsletter |-> getNewsletterFlag(args.newsletter),
      ticket |-> args.ticket]

\* a variant that writes every event as a visit
logEventRowVisit(eventType, args, now) ==
  LET utcStr == IF args.timestampUtc.kind = "absent" THEN Iso(now)
                ELSE args.timestampUtc
  IN IF utcStr.kind = "bad" THEN NoRow
     ELSE [utc |-> utcStr,
           pr |-> formatPRDateTimeShort(toPR(utcStr.t)),
           type |-> "visit",
           email |-> args.email,
           sessionId |-> args.sessionId,
           country |-> args.country,
           region |-> args.region,
           lastName |-> args.lastName,
           newsletter |-> getNewsletterFlag(args.newsletter),
           ticket |-> args.ticket]

\* logEventToSheet up to the append call: the row to append, or NoRow when
\* the function returns without appending (now: the clock reading)
logEventRow(eventType, args, now) ==
  LET utcStr == IF args.timestampUtc.kind = "absent" THEN Iso(now)
                ELSE args.timestampUtc
  IN IF SESSION_SHEET_ID = "" THEN NoRow
     ELSE IF utcStr.kind = "bad" THEN NoRow
     ELSE [utc |-> utcStr,
           pr |-> formatPRDateTimeShort(toPR(utcStr.t)),
           type |-> eventType,
           email |-> args.email,
           sessionId |-> args.sessionId,
           country |-> args.country,
           region |-> args.region,
           lastName |-> args.lastName,
           newsletter |-> getNewsletterFlag(args.newsletter),
           ticket |-> args.ticket]

\* a variant that inserts the row above the existing data rows
valuesInsertFirst(sh, row) == <<Head(sh), row>> \o Tail(sh)

\* sheets.spreadsheets.values.append with insertDataOption INSERT_ROWS: the
\* row goes below the last row of the table
valuesAppend(sh, row) == Append(sh, row)

\* the rows below the header
DataRows(sh) == IF sh = <<>> THEN <<>> ELSE Tail(sh)

(***************************************************************************)
(* The settings.  Of the fourteen SETTINGS_FIELDS the model keeps one      *)
(* boolean, ticketEnabled, and one string, galleryDisplayLimit; the server *)
(* session id is left out.                                                 *)
(***************************************************************************)
\* GET requests that hydrate the settings, in one run
MaxAccess == 2
\* POST /admin/settings requests in one run
MaxUpdates == 2

DEFAULT_APP_SETTINGS ==
  [ticketEnabled |-> TRUE, galleryDisplayLimit |-> <<"a", "l", "l">>]

GalleryLimits ==
  { <<"a", "l", "l">>, <<"l", "a", "s", "t", "1", "0">>,
    <<"l", "a", "s", "t", "2", "5">> }

\* values of a request body or of a sheet cell
BoolVal(b) == [kind |-> "boolean", b |-> b, str |-> <<>>]
StrVal(str) == [kind |-> "string", b |-> FALSE, str |-> str]

coerceBoolean(value, fallback) ==
  IF value.kind = "boolean" THEN value.b
  ELSE IF value.kind = "string"
  THEN LET lower == ToLowerCase(Trim(value.str))
       IN IF lower \in {<<"t", "r", "u", "e">>, <<"1">>, <<"y", "e", "s">>,
                        <<"y">>} THEN TRUE
          ELSE IF lower \in {<<"f", "a", "l", "s", "e">>, <<"0">>,
                             <<"n", "o">>, <<"n">>} THEN FALSE
          ELSE fallback
  ELSE fallback

normalizeBooleanLabel(value) ==
  IF value THEN <<"E", "n", "a", "b", "l", "e", "d">>
  ELSE <<"D", "i", "s", "a", "b", "l", "e", "d">>

\* parseBooleanLabel of the text of a cell
parseBooleanLabel(value, fallback) ==
  LET lower == ToLowerCase(Trim(value))
  IN IF lower \in {<<"e", "n", "a", "b", "l", "e", "d">>, <<"o", "n">>,
                   <<"t", "r", "u", "e">>, <<"1">>, <<"y", "e", "s">>,
                   <<"y">>} THEN TRUE
     ELSE IF lower \in {<<"d", "i", "s", "a", "b", "l", "e", "d">>,
                        <<"o", "f", "f">>, <<"f", "a", "l", "s", "e">>,
                        <<"0">>, <<"n", "o">>, <<"n">>} THEN FALSE
     ELSE fallback

normalizeStatusLabel(enabled) == IF enabled THEN <<"O", "n">> ELSE <<"O", "f", "f">>

\* mergeAppSettings(patch): patch is a function on the fields it has
mergeAppSettings(patch) ==
  [ticketEnabled |->
     IF "ticketEnabled" \in DOMAIN patch
     THEN coerceBoolean(patch.ticketEnabled, appSettings.ticketEnabled)
     ELSE appSettings.ticketEnabled,
   galleryDisplayLimit |->
     IF "galleryDisplayLimit" \in DOMAIN patch
     THEN LET limit == ToLowerCase(Trim(patch.galleryDisplayLimit.str))
          IN IF limit \in GalleryLimits THEN limit ELSE <<"a", "l", "l">>
     ELSE appSettings.galleryDisplayLimit]

\* the settings sheet without rows
NoSettingsRows ==
  [rows |-> FALSE, status |-> <<>>, ticket |-> <<>>, limit |-> <<>>]

\* the rows writeSettingsToSheet(settings, enabledStatus) writes
SettingsRows(settings, enabledStatus) ==
  [rows |-> TRUE, status |-> normalizeStatusLabel(enabledStatus),
   ticket |-> normalizeBooleanLabel(settings.ticketEnabled),
   limit |-> settings.galleryDisplayLimit]

\* readSettingsFromSheet() when the read rejects or the sheet has no row
NoPayload ==
  [isNull |-> TRUE, settingsPatch |-> DEFAULT_APP_SETTINGS,
   serverStatus |-> TRUE]

\* readSettingsFromSheet() over the rows read
readSettingsFromSheet(rows) ==
  IF ~rows.rows THEN NoPayload
  ELSE [isNull |-> FALSE,
        settingsPatch |->
          [ticketEnabled |->
             BoolVal(parseBooleanLabel(rows.ticket,
                                       appSettings.ticketEnabled)),
           galleryDisplayLimit |-> StrVal(Trim(rows.limit))],
        serverStatus |-> parseBooleanLabel(rows.status, TRUE)]

\* the calls of hydrateSettingsFromSheet: 0 is the call at start-up, the
\* others are made by GET /app-settings, GET /admin/settings, GET
\* /admin/app-status and GET /gallery/approved, which all call it first
HydIds == 0..MaxAccess

NoHyd == [pc |-> "idle", payload |-> NoPayload]

NoUpdate ==
  [pc |-> "idle", n |-> 0, settings |-> DEFAULT_APP_SETTINGS,
   enabled |-> TRUE, status |-> 0]

\* the settings are loaded and nothing is in flight
SettingsAtRest ==
  /\ appSettings = DEFAULT_APP_SETTINGS
  /\ settingsLoadedFromSheet = TRUE
  /\ settingsSheet = NoSettingsRows
  /\ hyd = [h \in HydIds |-> NoHyd]
  /\ adminUpdate = NoUpdate
  /\ reads = 0
  /\ applies = 0

\* hydrateSettingsFromSheet() up to its await, called by a GET request
HydrateCall(h) ==
  /\ h > 0 /\ hyd[h].pc = "idle"
  /\ \A k \in 1..(h - 1) : hyd[k].pc # "idle"
  /\ hyd' = [hyd EXCEPT ![h] =
               [NoHyd EXCEPT !.pc = IF settingsLoadedFromSheet THEN "done"
                                    ELSE "read"]]
  /\ UNCHANGED <<appSettings, settingsLoadedFromSheet, settingsSheet,
                 adminUpdate, reads, applies>>
  /\ UNCHANGED <<authVars, zone, calc, files, sheet, appEnabled,
                 mailConfigured, req, failed>>

\* the values.get of readSettingsFromSheet is answered; ok: it resolves
SettingsRead(h, ok) ==
  /\ hyd[h].pc = "read"
  /\ hyd' = [hyd EXCEPT ![h].pc = "apply",
                        ![h].payload =
                           IF ok THEN readSettingsFromSheet(settingsSheet)
                           ELSE NoPayload]
  /\ reads' = reads + 1
  /\ UNCHANGED <<appSettings, settingsLoadedFromSheet, settingsSheet,
                 adminUpdate, applies>>
  /\ UNCHANGED <<authVars, zone, calc, files, sheet, appEnabled,
                 mailConfigured, req, failed>>

\* hydrateSettingsFromSheet() after its await
HydrateApply(h) ==
  /\ hyd[h].pc = "apply"
  /\ LET sheetPayload == hyd[h].payload
     IN /\ appSettings' = IF sheetPayload.isNull THEN appSettings
                          ELSE mergeAppSettings(sheetPayload.settingsPatch)
        /\ appEnabled' = IF sheetPayload.isNull THEN appEnabled
                         ELSE sheetPayload.serverStatus
        /\ applies' = IF sheetPayload.isNull THEN applies ELSE applies + 1
  /\ settingsLoadedFromSheet' = TRUE
  /\ hyd' = [hyd EXCEPT ![h].pc = "done"]
  /\ UNCHANGED <<settingsSheet, adminUpdate, reads>>
  /\ UNCHANGED <<authVars, zone, calc, files, sheet, mailConfigured, req,
                 failed>>

\* bodies of POST /admin/settings
SettingsPatches ==
  { [ticketEnabled |-> BoolVal(FALSE)],
    [galleryDisplayLimit |-> StrVal(<<"L", "a", "s", "t", "1", "0", " ">>)],
    [ticketEnabled |-> StrVal(<<"Y", "E", "S">>),
     galleryDisplayLimit |-> StrVal(<<"l", "a", "s", "t", "2">>)] }

\* POST /admin/settings up to the await of writeSettingsToSheet
SettingsRecv(patch) ==
  /\ adminUpdate.pc \in {"idle", "done"} /\ adminUpdate.n < MaxUpdates
  /\ appSettings' = mergeAppSettings(patch)
  /\ adminUpdate' = [pc |-> "write", n |-> adminUpdate.n + 1,
                     settings |-> mergeAppSettings(patch),
                     enabled |-> appEnabled, status |-> 0]
  /\ UNCHANGED <<settingsLoadedFromSheet, settingsSheet, hyd, reads, applies>>
  /\ UNCHANGED <<authVars, zone, calc, files, sheet, appEnabled,
                 mailConfigured, req, failed>>

\* the values.update of writeSettingsToSheet is answered; ok: it resolves
SettingsPersist(ok) ==
  /\ adminUpdate.pc = "write"
  /\ settingsSheet' =
       IF ok THEN SettingsRows(adminUpdate.settings, adminUpdate.enabled)
       ELSE settingsSheet
  /\ settingsLoadedFromSheet' = IF ok THEN TRUE ELSE settingsLoadedFromSheet
  /\ adminUpdate' = [adminUpdate EXCEPT !.pc = "done",
                                        !.status = IF ok THEN 200 ELSE 500]
  /\ UNCHANGED <<appSettings, hyd, reads, applies>>
  /\ UNCHANGED <<authVars, zone, calc, files, sheet, appEnabled,
                 mailConfigured, req, failed>>

(***************************************************************************)
(* The admin login: POST /admin/auth, the middleware ensureAdminAuth and   *)
(* POST /admin/unblock.  The handlers do not await: each is one step.      *)
(* ADMIN_ACCESS_CODE and ADMIN_UNLOCK_KEY are configured.  Time is in      *)
(* minutes.                                                                *)
(***************************************************************************)
\* the last minute the clock reaches
MaxClock == 40
\* minutes between two readings of the clock
ClockStep == 20

ADMIN_MAX_ATTEMPTS == 3
ADMIN_BLOCK_MINUTES == 30
\* maxAgeMs of a session token: 8 hours
MaxAgeMinutes == 480

IPs == {"10.0.0.1", "10.0.0.2"}

\* ipTracker.get(ip) of an IP without entry
NoRecord == [present |-> FALSE, attempts |-> 0, blockedUntil |-> 0]

NoToken == [ip |-> "", iat |-> 0]

NoAnswer ==
  [route |-> "", ip |-> "", code |-> "", status |-> 0, error |-> "",
   remainingAttempts |-> 0, token |-> NoToken, wasBlocked |-> FALSE]

AuthAtRest ==
  /\ ipTracker = [ip \in IPs |-> NoRecord]
  /\ clock = 0
  /\ tokens = {}
  /\ authLog = NoAnswer
  /\ wrong = [ip \in IPs |-> 0]

isBlocked(ip) ==
  /\ ipTracker[ip].present
  /\ ipTracker[ip].blockedUntil # 0
  /\ ipTracker[ip].blockedUntil > clock

AuthAnswer(route, ip, status, error) ==
  [NoAnswer EXCEPT !.route = route, !.ip = ip, !.status = status,
                   !.error = error, !.wasBlocked = isBlocked(ip)]

LoginAnswer(code, ip, status, error) ==
  [AuthAnswer("/admin/auth", ip, status, error) EXCEPT !.code = code]

AuthUnchanged ==
  /\ UNCHANGED settingsVars
  /\ UNCHANGED <<zone, calc, files, sheet, appEnabled, mailConfigured, req,
                 failed>>

\* a variant that blocks only after the attempts exceed the maximum
AdminAuthLate(ip, code) ==
  LET record == ipTracker[ip]
      attempts == record.attempts + 1
  IN /\ IF isBlocked(ip) \/ code = "missing"
        THEN /\ authLog' = IF isBlocked(ip)
                           THEN LoginAnswer(code, ip, 403, "blocked")
                           ELSE LoginAnswer(code, ip, 400,
                                           "missing_code")
             /\ UNCHANGED <<ipTracker, tokens, wrong>>
        ELSE IF code = "correct"
        THEN /\ ipTracker' = [ipTracker EXCEPT ![ip] =
                                [present |-> TRUE, attempts |-> 0,
                                 blockedUntil |-> 0]]
             /\ tokens' = tokens \cup {[ip |-> ip, iat |-> clock]}
             /\ wrong' = [wrong EXCEPT ![ip] = 0]
             /\ authLog' = [LoginAnswer(code, ip, 200, "") EXCEPT
                              !.token = [ip |-> ip, iat |-> clock]]
        ELSE /\ wrong' = [wrong EXCEPT ![ip] = @ + 1]
             /\ UNCHANGED tokens
             /\ IF attempts > ADMIN_MAX_ATTEMPTS
                THEN /\ ipTracker' = [ipTracker EXCEPT ![ip] =
                                        [present |-> TRUE,
                                         attempts |-> attempts,
                                         blockedUntil |->
                                           clock + ADMIN_BLOCK_MINUTES]]
                     /\ authLog' = LoginAnswer(code, ip, 403,
                                              "blocked")
                ELSE /\ ipTracker' = [ipTracker EXCEPT ![ip] =
                                        [present |-> TRUE,
                                         attempts |-> attempts,
                                         blockedUntil |->
                                           record.blockedUntil]]
                     /\ authLog' =
                          [LoginAnswer(code, ip, 401, "invalid_code")
                             EXCEPT !.remainingAttempts =
                                       ADMIN_MAX_ATTEMPTS - attempts]
     /\ UNCHANGED clock
     /\ AuthUnchanged

\* POST /admin/auth from ip; code: "missing", "wrong" or "correct"
AdminAuth(ip, code) ==
  LET record == ipTracker[ip]
      attempts == record.attempts + 1
  IN /\ IF isBlocked(ip) \/ code = "missing"
        THEN /\ authLog' = IF isBlocked(ip)
                           THEN LoginAnswer(code, ip, 403, "blocked")
                           ELSE LoginAnswer(code, ip, 400,
                                           "missing_code")
             /\ UNCHANGED <<ipTracker, tokens, wrong>>
        ELSE IF code = "correct"
        THEN /\ ipTracker' = [ipTracker EXCEPT ![ip] =
                                [present |-> TRUE, attempts |-> 0,
                                 blockedUntil |-> 0]]
             /\ tokens' = tokens \cup {[ip |-> ip, iat |-> clock]}
             /\ wrong' = [wrong EXCEPT ![ip] = 0]
             /\ authLog' = [LoginAnswer(code, ip, 200, "") EXCEPT
                              !.token = [ip |-> ip, iat |-> clock]]
        ELSE /\ wrong' = [wrong EXCEPT ![ip] = @ + 1]
             /\ UNCHANGED tokens
             /\ IF attempts >= ADMIN_MAX_ATTEMPTS
                THEN /\ ipTracker' = [ipTracker EXCEPT ![ip] =
                                        [present |-> TRUE,
                                         attempts |-> attempts,
                                         blockedUntil |->
                                           clock + ADMIN_BLOCK_MINUTES]]
                     /\ authLog' = LoginAnswer(code, ip, 403,
                                              "blocked")
                ELSE /\ ipTracker' = [ipTracker EXCEPT ![ip] =
                                        [present |-> TRUE,
                                         attempts |-> attempts,
                                         blockedUntil |->
                                           record.blockedUntil]]
                     /\ authLog' =
                          [LoginAnswer(code, ip, 401, "invalid_code")
                             EXCEPT !.remainingAttempts =
                                       ADMIN_MAX_ATTEMPTS - attempts]
     /\ UNCHANGED clock
     /\ AuthUnchanged

\* verifyAdminSessionToken of a token the server signed
verifyAdminSessionToken(token) ==
  token # NoToken /\ clock - token.iat <= MaxAgeMinutes

\* ensureAdminAuth for a request from ip that carries token (NoToken: none);
\* status 200 stands for next()
AdminGate(ip, token) ==
  /\ authLog' =
       IF isBlocked(ip) THEN AuthAnswer("ensureAdminAuth", ip, 403, "blocked")
       ELSE IF ~verifyAdminSessionToken(token)
       THEN AuthAnswer("ensureAdminAuth", ip, 401, "unauthorized")
       ELSE IF token.ip # ip
       THEN AuthAnswer("ensureAdminAuth", ip, 401, "unauthorized")
       ELSE AuthAnswer("ensureAdminAuth", ip, 200, "")
  /\ UNCHANGED <<ipTracker, clock, tokens, wrong>>
  /\ AuthUnchanged

\* POST /admin/unblock for ip; keyOk: the header carries ADMIN_UNLOCK_KEY
AdminUnblock(ip, keyOk) ==
  /\ IF keyOk
     THEN /\ ipTracker' = [ipTracker EXCEPT ![ip] = NoRecord]
          /\ wrong' = [wrong EXCEPT ![ip] = 0]
          /\ authLog' = [AuthAnswer("/admin/unblock", ip, 200, "") EXCEPT
                           !.wasBlocked = FALSE]
     ELSE /\ authLog' = [AuthAnswer("/admin/unblock", ip, 403, "forbidden")
                           EXCEPT !.wasBlocked = FALSE]
          /\ UNCHANGED <<ipTracker, wrong>>
  /\ UNCHANGED <<clock, tokens>>
  /\ AuthUnchanged

\* time passes
Tick ==
  /\ clock + ClockStep <= MaxClock
  /\ clock' = clock + ClockStep
  /\ UNCHANGED <<ipTracker, tokens, authLog, wrong>>
  /\ AuthUnchanged

(***************************************************************************)
(* Requests.                                                               *)
(***************************************************************************)
ScanInit == [p \in Partitions |-> [done |-> FALSE, token |-> 0, maxIndex |-> 0]]

NoReport == [visits |-> 0, forms |-> 0, uploads |-> 0]

NoResp ==
  [status |-> 0, error |-> "", fileId |-> 0, ticketIndex |-> 0,
   ticketLabel |-> <<>>, ticketDisplay |-> <<>>, report |-> NoReport]

Resp(status, error) == [NoResp EXCEPT !.status = status, !.error = error]

\* a slot without a request.  The last three fields are history: the file
\* ids the listings returned, what became of the log append ("ok", "rejected",
\* "skipped": logEventToSheet returned before it), the call that rejected
\* and ended the request ("list", "create") and the number of files the Drive
\* held when the request arrived.
IdleReq ==
  [kind |-> "none", pc |-> "idle", scan |-> ScanInit, nextIndex |-> 0,
   finalName |-> <<>>, row |-> NoRow, token |-> 0, acc |-> <<>>, ids |-> <<>>,
   resp |-> NoResp, seen |-> {}, logged |-> "none", rejected |-> "none",
   since |-> 0]

Free(s) == req[s].pc \in {"idle", "done"}

\* a new request takes the first free slot
Fresh(s) == Free(s) /\ \A x \in Slots : x < s => ~Free(x)

UploadInFlight(r) == r.kind = "upload" /\ r.pc \in {"scan", "create"}

Uploaded == {i \in 1..Len(files) : files[i].origin = "upload"}

\* the bounds of the model: beyond them the create and the append reject
RoomForUpload == Cardinality(Uploaded) < MaxUploads /\ Len(files) < MaxFiles

RoomForRow == Len(sheet) < MaxRows

\* getTodayStatsFromSheet: nothing counted
NoStats ==
  [visits |-> 0, forms |-> 0, uploads |-> 0, eventsForPrimeHour |-> <<>>,
   newsletterEmails |-> <<>>]

\* computePrimeHour: null
NoPrime == [isNull |-> TRUE, hour |-> 0, count |-> 0]

\* POST /session-report-date: no report ('No data for ...')
NoDateReport ==
  [noData |-> TRUE, visits |-> 0, forms |-> 0, uploads |-> 0,
   newsletterEmails |-> <<>>]

\* no direct call yet
NoCalc ==
  [op |-> "none", now |-> 0, t |-> 0, value |-> NullValue, ts |-> NoTs,
   before |-> 0, threw |-> FALSE, flag |-> "", str |-> <<>>, idx |-> 0,
   status |-> 0, report |-> NoDateReport,
   range |-> [startUtc |-> 0, endUtc |-> 0, endMs |-> 0],
   stats |-> NoStats, prime |-> NoPrime]

\* the request ends: the response is sent and the locals are dropped
Finish(r, resp) ==
  [IdleReq EXCEPT !.kind = r.kind, !.pc = "done", !.logged = r.logged,
                  !.rejected = r.rejected, !.resp = resp]

Init ==
  /\ SettingsAtRest
  /\ AuthAtRest
  /\ zone \in Zones
  /\ calc = NoCalc
  /\ files \in InitialDrives
  /\ sheet = <<SESSION_SHEET_HEADERS>>
  /\ appEnabled = TRUE
  /\ mailConfigured \in BOOLEAN
  /\ req = [s \in Slots |-> IdleReq]
  /\ failed = 0

(***************************************************************************)
(* POST /upload                                                            *)
(***************************************************************************)
\* buildSessionIdentifier(req) of the requests of this model
SessionId == "IP 203.0.113.7"

\* the handler up to the four listing calls of getNextPhotoIndex
UploadRecv(s, hasBody) ==
  /\ Fresh(s)
  /\ LET r == [IdleReq EXCEPT !.kind = "upload"]
     IN IF ~appEnabled
        THEN req' = [req EXCEPT ![s] = Finish(r, Resp(503, "app_offline"))]
        ELSE IF ~hasBody
        THEN req' = [req EXCEPT ![s] = Finish(r, Resp(400, "No file uploaded."))]
        ELSE req' = [req EXCEPT ![s] =
                       [r EXCEPT !.pc = "scan", !.since = Len(files)]]
  /\ UNCHANGED <<settingsVars, authVars>>
  /\ UNCHANGED <<zone, calc, files, sheet, appEnabled, mailConfigured, failed>>

\* a variant that takes a rejected listing for an empty last page
UploadListSwallow(s, p, ok, now) ==
  /\ req[s].kind = "upload" /\ req[s].pc = "scan"
  /\ ~req[s].scan[p].done
  /\ LET res  == IF ok THEN ListPage(p[1], p[2], req[s].scan[p].token)
                 ELSE [ids |-> {}, nextPageToken |-> 0]
         scan == [req[s].scan EXCEPT ![p] =
                    [done |-> res.nextPageToken = 0,
                     token |-> res.nextPageToken,
                     maxIndex |-> PageMax(res.ids, @.maxIndex)]]
         r    == [req[s] EXCEPT !.seen = @ \cup res.ids,
                                !.rejected = IF ok THEN @ ELSE "list"]
     IN IF \E q \in Partitions : ~scan[q].done
        THEN req' = [req EXCEPT ![s] = [r EXCEPT !.scan = scan]]
        ELSE req' = [req EXCEPT ![s] =
                       [r EXCEPT
                          !.scan = ScanInit, !.pc = "create",
                          !.nextIndex = NextPhotoIndex(scan),
                          !.finalName =
                             buildServerFileName(NextPhotoIndex(scan), now)]]
  /\ UNCHANGED <<settingsVars, authVars>>
  /\ UNCHANGED <<zone, calc, files, sheet, appEnabled, mailConfigured, failed>>

\* one drive.files.list call of getMaxIndexInFolderWithTrashFlag answers;
\* when it is the last one, uploadFile goes on to the drive.files.create call
UploadList(s, p, ok, now) ==
  /\ req[s].kind = "upload" /\ req[s].pc = "scan"
  /\ ~req[s].scan[p].done
  /\ IF ~ok
     THEN req' = [req EXCEPT ![s] =
                    Finish([@ EXCEPT !.rejected = "list"],
                           Resp(500, "Error uploading file"))]
     ELSE LET res  == ListPage(p[1], p[2], req[s].scan[p].token)
              scan == [req[s].scan EXCEPT ![p] =
                         [done |-> res.nextPageToken = 0,
                          token |-> res.nextPageToken,
                          maxIndex |-> PageMax(res.ids, @.maxIndex)]]
              seen == req[s].seen \cup res.ids
          IN IF \E q \in Partitions : ~scan[q].done
             THEN req' = [req EXCEPT ![s] =
                            [@ EXCEPT !.scan = scan, !.seen = seen]]
             ELSE LET nextIndex == NextPhotoIndex(scan)
                  IN req' = [req EXCEPT ![s] =
                               [@ EXCEPT
                                  !.scan = ScanInit, !.seen = seen,
                                  !.pc = "create",
                                  !.nextIndex = nextIndex,
                                  !.finalName =
                                     buildServerFileName(nextIndex, now)]]
  /\ UNCHANGED <<settingsVars, authVars>>
  /\ UNCHANGED <<zone, calc, files, sheet, appEnabled, mailConfigured, failed>>

\* the request after a create call that stored the file
Stored(r, now) ==
  LET ticketLabel == formatTicketLabel(r.nextIndex)
      row == logEventRow("upload",
                         [NoArgs EXCEPT !.sessionId = SessionId,
                                        !.ticket = ticketLabel],
                         now)
  IN [r EXCEPT !.pc = "append", !.row = row, !.seen = {},
               !.resp = [NoResp EXCEPT
                           !.fileId = Len(files) + 1,
                           !.ticketIndex = r.nextIndex,
                           !.ticketLabel = ticketLabel,
                           !.ticketDisplay = ticketDisplayOf(r.nextIndex)]]

\* a variant in which a create call that rejects has stored the file
UploadCreateLeaky(s, ok, now) ==
  /\ req[s].kind = "upload" /\ req[s].pc = "create"
  /\ RoomForUpload
  /\ files' = Append(files, File(req[s].finalName, {PENDING}, FALSE,
                                 "upload", req[s].nextIndex))
  /\ IF ~ok
     THEN /\ req' = [req EXCEPT ![s] =
                       Finish([@ EXCEPT !.rejected = "create"],
                              Resp(500, "Error uploading file"))]
          /\ failed' = req[s].nextIndex
     ELSE /\ req' = [req EXCEPT ![s] = Stored(@, now)]
          /\ failed' = 0
  /\ UNCHANGED <<settingsVars, authVars>>
  /\ UNCHANGED <<zone, calc, sheet, appEnabled, mailConfigured>>

\* a variant that looks for the number among the stored names after the
\* create call and answers 409 when another file bears it
UploadCreateReporting(s, ok, now) ==
  /\ req[s].kind = "upload" /\ req[s].pc = "create"
  /\ ok => RoomForUpload
  /\ IF ~ok
     THEN /\ req' = [req EXCEPT ![s] =
                       Finish([@ EXCEPT !.rejected = "create"],
                              Resp(500, "Error uploading file"))]
          /\ failed' = req[s].nextIndex
          /\ UNCHANGED files
     ELSE /\ files' = Append(files, File(req[s].finalName, {PENDING}, FALSE,
                                         "upload", req[s].nextIndex))
          /\ req' = [req EXCEPT ![s] =
                       IF \E i \in 1..Len(files) :
                            NameIndex(files[i].name) = req[s].nextIndex
                       THEN Finish(@, [Stored(@, now).resp EXCEPT
                                         !.status = 409,
                                         !.error = "duplicate_ticket"])
                       ELSE Stored(@, now)]
          /\ failed' = 0
  /\ UNCHANGED <<settingsVars, authVars>>
  /\ UNCHANGED <<zone, calc, sheet, appEnabled, mailConfigured>>

\* drive.files.create answers; on success the handler goes on to the append
\* call of logEventToSheet('upload', ...)
UploadCreate(s, ok, now) ==
  /\ req[s].kind = "upload" /\ req[s].pc = "create"
  /\ ok => RoomForUpload
  /\ IF ~ok
     THEN /\ req' = [req EXCEPT ![s] =
                       Finish([@ EXCEPT !.rejected = "create"],
                              Resp(500, "Error uploading file"))]
          /\ failed' = req[s].nextIndex
          /\ UNCHANGED files
     ELSE /\ files' = Append(files, File(req[s].finalName, {PENDING}, FALSE,
                                         "upload", req[s].nextIndex))
          /\ req' = [req EXCEPT ![s] = Stored(@, now)]
          /\ failed' = 0
  /\ UNCHANGED <<settingsVars, authVars>>
  /\ UNCHANGED <<zone, calc, sheet, appEnabled, mailConfigured>>

(***************************************************************************)
(* POST /ping and POST /visit                                              *)
(***************************************************************************)
\* the handler up to the append call of logEventToSheet('visit', ...)
\* a variant that logs the visit whether the app is on or off
PingRecvOpen(s, now) ==
  /\ Fresh(s)
  /\ req' = [req EXCEPT ![s] =
               [IdleReq EXCEPT
                  !.kind = "ping", !.pc = "append",
                  !.row = logEventRow("visit",
                            [NoArgs EXCEPT !.sessionId = SessionId], now)]]
  /\ UNCHANGED <<settingsVars, authVars>>
  /\ UNCHANGED <<zone, calc, files, sheet, appEnabled, mailConfigured, failed>>

PingRecv(s, now) ==
  /\ Fresh(s)
  /\ LET r == [IdleReq EXCEPT !.kind = "ping"]
     IN IF ~appEnabled
        THEN req' = [req EXCEPT ![s] = Finish(r, Resp(503, "app_offline"))]
        ELSE req' = [req EXCEPT ![s] =
                          [r EXCEPT
                             !.pc = "append",
                             !.row = logEventRow("visit",
                                       [NoArgs EXCEPT !.sessionId = SessionId],
                                       now)]]
  /\ UNCHANGED <<settingsVars, authVars>>
  /\ UNCHANGED <<zone, calc, files, sheet, appEnabled, mailConfigured, failed>>

\* the JSON bodies POST /visit is called with; country is given as the
\* parts left by split(',').map(trim).filter(Boolean)
VisitBodies ==
  { [country |-> <<"Mayaguez", "PR">>, lastName |-> "Rivera",
     email |-> <<"a", "@", "x">>, newsletter |-> StrValue(<<"S", "i">>),
     timestamp |-> NoTs],
    [country |-> <<>>, lastName |-> "", email |-> <<>>,
     newsletter |-> NullValue, timestamp |-> BadTs] }

\* the handler up to the append call of logEventToSheet('form', ...), or up
\* to the sendMail call when logEventToSheet returns without appending
VisitRecv(s, body, now) ==
  /\ Fresh(s)
  /\ LET r == [IdleReq EXCEPT !.kind = "visit"]
     IN IF ~appEnabled
        THEN req' = [req EXCEPT ![s] = Finish(r, Resp(503, "app_offline"))]
        ELSE LET timestampUtc == IF body.timestamp.kind = "absent"
                                 THEN Iso(now) ELSE body.timestamp
                 parts == body.country
                 region == IF Len(parts) >= 2 THEN parts[1] ELSE ""
                 countryClean == IF Len(parts) >= 2 THEN parts[2]
                                 ELSE IF Len(parts) = 1 THEN parts[1] ELSE ""
                 row == logEventRow("form",
                          [NoArgs EXCEPT
                             !.email = body.email, !.sessionId = SessionId,
                             !.timestampUtc = timestampUtc,
                             !.country = countryClean, !.region = region,
                             !.lastName = body.lastName,
                             !.newsletter = body.newsletter],
                          now)
             IN IF row # NoRow
                THEN req' = [req EXCEPT ![s] =
                               [r EXCEPT !.pc = "append", !.row = row]]
                ELSE req' = [req EXCEPT ![s] =
                               IF mailConfigured
                               THEN [r EXCEPT !.pc = "mail",
                                              !.logged = "skipped"]
                               ELSE Finish([r EXCEPT !.logged = "skipped"],
                                           Resp(500, "mail_disabled"))]
  /\ UNCHANGED <<settingsVars, authVars>>
  /\ UNCHANGED <<zone, calc, files, sheet, appEnabled, mailConfigured, failed>>

\* sheets.spreadsheets.values.append answers; a rejection is caught by the
\* handler, which then goes on to its response
\* a variant that answers 500 when the append is rejected
LogAppendFatal(s, ok) ==
  /\ req[s].kind \in {"upload", "ping", "visit"} /\ req[s].pc = "append"
  /\ ok => RoomForRow
  /\ sheet' = IF ok THEN valuesAppend(sheet, req[s].row) ELSE sheet
  /\ LET r == [req[s] EXCEPT !.logged = IF ok THEN "ok" ELSE "rejected"]
     IN req' = [req EXCEPT ![s] =
                  IF ~ok THEN Finish(r, Resp(500, "log_failed"))
                  ELSE CASE r.kind = "upload" ->
                              Finish(r, [r.resp EXCEPT !.status = 200])
                         [] r.kind = "ping" -> Finish(r, Resp(200, ""))
                         [] r.kind = "visit" ->
                              IF mailConfigured
                              THEN [r EXCEPT !.pc = "mail", !.row = NoRow]
                              ELSE Finish(r, Resp(500, "mail_disabled"))]
  /\ UNCHANGED <<settingsVars, authVars>>
  /\ UNCHANGED <<zone, calc, files, appEnabled, mailConfigured, failed>>

LogAppend(s, ok) ==
  /\ req[s].kind \in {"upload", "ping", "visit"} /\ req[s].pc = "append"
  /\ ok => RoomForRow
  /\ sheet' = IF ok THEN valuesAppend(sheet, req[s].row) ELSE sheet
  /\ LET r == [req[s] EXCEPT !.logged = IF ok THEN "ok" ELSE "rejected"]
     IN req' = [req EXCEPT ![s] =
                  CASE r.kind = "upload" ->
                         Finish(r, [r.resp EXCEPT !.status = 200])
                    [] r.kind = "ping" -> Finish(r, Resp(200, ""))
                    [] r.kind = "visit" ->
                         IF mailConfigured
                         THEN [r EXCEPT !.pc = "mail", !.row = NoRow]
                         ELSE Finish(r, Resp(500, "mail_disabled"))]
  /\ UNCHANGED <<settingsVars, authVars>>
  /\ UNCHANGED <<zone, calc, files, appEnabled, mailConfigured, failed>>

\* mailTransporter.sendMail of POST /visit answers
VisitMail(s, ok) ==
  /\ req[s].kind = "visit" /\ req[s].pc = "mail"
  /\ req' = [req EXCEPT ![s] =
               IF ok THEN Finish(@, Resp(200, ""))
               ELSE Finish(@, Resp(500, "email_failed"))]
  /\ UNCHANGED <<settingsVars, authVars>>
  /\ UNCHANGED <<zone, calc, files, sheet, appEnabled, mailConfigured, failed>>

(***************************************************************************)
(* Admin actions on photos (requests that passed ensureAdminAuth).         *)
(* fileId 0: no fileId in the body; a fileId beyond the last file: an id   *)
(* the Drive does not know, so that the update rejects.                    *)
(***************************************************************************)
FileIds == 0..(Len(files) + 1)

\* an admin action leaves newFiles in the Drive
AdminTouch(newFiles) ==
  /\ files' = newFiles
  /\ failed' = IF newFiles = files THEN failed ELSE 0
  /\ UNCHANGED <<settingsVars, authVars>>
  /\ UNCHANGED <<zone, calc, sheet, appEnabled, mailConfigured, req>>

\* a variant without removeParents
MoveToApprovedKeep(f) == [f EXCEPT !.parents = @ \cup {APPROVED}]

\* drive.files.update({addParents: APPROVED, removeParents: PENDING})
MoveToApproved(f) ==
  [f EXCEPT !.parents = (@ \cup {APPROVED}) \ {PENDING}]

\* drive.files.update({requestBody: {trashed: true}})
Trash(f) == [f EXCEPT !.trashed = TRUE]

Approve(fileId, ok) ==
  AdminTouch(IF fileId \in 1..Len(files) /\ ok
             THEN [files EXCEPT ![fileId] = MoveToApproved(@)]
             ELSE files)

Reject(fileId, ok) ==
  AdminTouch(IF fileId \in 1..Len(files) /\ ok
             THEN [files EXCEPT ![fileId] = Trash(@)]
             ELSE files)

DeleteApproved(fileId, ok) ==
  AdminTouch(IF fileId \in 1..Len(files) /\ ok
             THEN [files EXCEPT ![fileId] = Trash(@)]
             ELSE files)

\* what the access code sent with the request is
AccessCodes == {"missing", "invalid", "valid"}

\* POST /admin/app-status (the settings sheet it then writes is not part of
\* this state)
AppStatus(enabled, code) ==
  /\ appEnabled' = IF enabled THEN TRUE
                   ELSE IF code = "valid" THEN FALSE ELSE appEnabled
  /\ UNCHANGED <<settingsVars, authVars>>
  /\ UNCHANGED <<zone, calc, files, sheet, mailConfigured, req, failed>>

(***************************************************************************)
(* clearDriveFolders and resetSessionLogs, called by POST /admin/clear-    *)
(* drive, POST /admin/reset-logs and, through performSessionCleanup, by    *)
(* POST /admin/shutdown.                                                   *)
(***************************************************************************)
ClearRecv(s) ==
  /\ Fresh(s)
  /\ req' = [req EXCEPT ![s] =
               [IdleReq EXCEPT !.kind = "clear", !.pc = "cd_pending"]]
  /\ UNCHANGED <<settingsVars, authVars>>
  /\ UNCHANGED <<zone, calc, files, sheet, appEnabled, mailConfigured, failed>>

\* clearDriveFolders returned
AfterClear(r) ==
  IF r.kind = "shutdown" THEN [r EXCEPT !.pc = "sd_persist"]
  ELSE Finish(r, Resp(200, ""))

\* the approved listing is over: on to the trashing loop
AfterLists(r) ==
  IF r.ids = <<>> THEN AfterClear(r) ELSE [r EXCEPT !.pc = "cd_trash"]

\* one drive.files.list call of listFilesInFolder answers
ClearList(s, ok) ==
  /\ req[s].pc \in {"cd_pending", "cd_approved"}
  /\ LET r      == req[s]
         folder == IF r.pc = "cd_pending" THEN PENDING ELSE APPROVED
         res    == ListPageDesc(folder, r.token)
         \* the listing ended: its files (none when it threw) are kept
         ended(found) ==
           LET r2 == [r EXCEPT !.ids = @ \o found, !.acc = <<>>, !.token = 0]
           IN IF r.pc = "cd_pending" THEN [r2 EXCEPT !.pc = "cd_approved"]
              ELSE AfterLists(r2)
     IN req' = [req EXCEPT ![s] =
                  IF ~ok THEN ended(<<>>)
                  ELSE IF res.nextPageToken # 0
                  THEN [r EXCEPT !.acc = @ \o res.ids,
                                 !.token = res.nextPageToken]
                  ELSE ended(r.acc \o res.ids)]
  /\ UNCHANGED <<settingsVars, authVars>>
  /\ UNCHANGED <<zone, calc, files, sheet, appEnabled, mailConfigured, failed>>

\* one drive.files.update call of the trashing loop answers
ClearTrash(s, ok) ==
  /\ req[s].pc = "cd_trash"
  /\ LET r  == req[s]
         id == Head(r.ids)
         r2 == [r EXCEPT !.ids = Tail(@)]
         newFiles == IF ok THEN [files EXCEPT ![id] = Trash(@)] ELSE files
     IN /\ files' = newFiles
        /\ req' = [req EXCEPT ![s] =
                     IF r2.ids = <<>> THEN AfterClear(r2) ELSE r2]
        /\ failed' = IF newFiles = files THEN failed ELSE 0
  /\ UNCHANGED <<settingsVars, authVars>>
  /\ UNCHANGED <<zone, calc, sheet, appEnabled, mailConfigured>>

ResetRecv(s) ==
  /\ Fresh(s)
  /\ req' = [req EXCEPT ![s] =
               [IdleReq EXCEPT !.kind = "reset", !.pc = "rl_header"]]
  /\ UNCHANGED <<settingsVars, authVars>>
  /\ UNCHANGED <<zone, calc, files, sheet, appEnabled, mailConfigured, failed>>

\* resetSessionLogs returned true or false
AfterReset(r, cleared) ==
  IF r.kind = "shutdown" THEN [r EXCEPT !.pc = "cd_pending"]
  ELSE IF cleared THEN Finish(r, Resp(200, ""))
  ELSE Finish(r, Resp(500, "reset_logs_failed"))

\* values.update of A1:J1 answers, then values.clear of A2:J
ResetStep(s, ok) ==
  /\ req[s].pc \in {"rl_header", "rl_clear"}
  /\ LET r == req[s]
     IN IF ~ok
        THEN /\ req' = [req EXCEPT ![s] = AfterReset(r, FALSE)]
             /\ UNCHANGED sheet
        ELSE IF r.pc = "rl_header"
        THEN /\ sheet' = IF sheet = <<>> THEN <<SESSION_SHEET_HEADERS>>
                         ELSE [sheet EXCEPT ![1] = SESSION_SHEET_HEADERS]
             /\ req' = [req EXCEPT ![s] = [r EXCEPT !.pc = "rl_clear"]]
        ELSE /\ sheet' = SubSeq(sheet, 1, 1)
             /\ req' = [req EXCEPT ![s] = AfterReset(r, TRUE)]
  /\ UNCHANGED <<settingsVars, authVars>>
  /\ UNCHANGED <<zone, calc, files, appEnabled, mailConfigured, failed>>

(***************************************************************************)
(* POST /admin/shutdown                                                    *)
(***************************************************************************)
\* getTodayPRRangeUtc when the clock reads now
getTodayPRRangeUtc(now) == TodayPRRangeUtcIn(zone, now)

\* a variant that keeps every insertion
SetAddAgain(list, x) == Append(list, x)

\* newsletterSet.add(email): a Set keeps one entry per value, in the order
\* of first insertion
SetAdd(list, x) ==
  IF \E i \in 1..Len(list) : list[i] = x THEN list ELSE Append(list, x)

\* a variant whose window leaves out its last instant
RECURSIVE StatsLoopHalfOpen(_, _, _, _)
StatsLoopHalfOpen(rows, i, range, st) ==
  IF i > Len(rows) THEN st
  ELSE LET row  == rows[i]
           skip == \/ row.utc.kind = "absent" \/ row.type = ""
                   \/ row.utc.kind = "bad"
                   \/ row.utc.t < range.startUtc \/ row.utc.t >= range.endUtc
           counted ==
             [st EXCEPT
                !.visits  = IF row.type = "visit" THEN @ + 1 ELSE @,
                !.forms   = IF row.type = "form" THEN @ + 1 ELSE @,
                !.uploads = IF row.type = "upload" THEN @ + 1 ELSE @,
                !.eventsForPrimeHour = Append(@, row.utc),
                !.newsletterEmails =
                   IF row.newsletter = "Y" /\ Trim(row.email) # <<>>
                   THEN SetAdd(@, Trim(row.email)) ELSE @]
       IN StatsLoopHalfOpen(rows, i + 1, range, IF skip THEN st ELSE counted)

\* the for loop of getTodayStatsFromSheet from row i on (rows[1]: the header)
RECURSIVE StatsLoop(_, _, _, _)
StatsLoop(rows, i, range, st) ==
  IF i > Len(rows) THEN st
  ELSE LET row  == rows[i]
           skip == \/ row.utc.kind = "absent" \/ row.type = ""
                   \/ row.utc.kind = "bad"
                   \/ row.utc.t < range.startUtc \/ row.utc.t > range.endUtc
           counted ==
             [st EXCEPT
                !.visits  = IF row.type = "visit" THEN @ + 1 ELSE @,
                !.forms   = IF row.type = "form" THEN @ + 1 ELSE @,
                !.uploads = IF row.type = "upload" THEN @ + 1 ELSE @,
                !.eventsForPrimeHour = Append(@, row.utc),
                !.newsletterEmails =
                   IF row.newsletter = "Y" /\ Trim(row.email) # <<>>
                   THEN SetAdd(@, Trim(row.email)) ELSE @]
       IN StatsLoop(rows, i + 1, range, IF skip THEN st ELSE counted)

\* getTodayStatsFromSheet over the rows read when the clock reads now
getTodayStatsFromSheet(rows, now) ==
  IF Len(rows) <= 1 THEN NoStats
  ELSE StatsLoop(rows, 2, getTodayPRRangeUtc(now), NoStats)

\* the counters of getTodayStatsFromSheet
getTodayStats(rows, now) ==
  LET st == getTodayStatsFromSheet(rows, now)
  IN [visits |-> st.visits, forms |-> st.forms, uploads |-> st.uploads]

\* bucket[h] of computePrimeHour
Bucket(events, h) ==
  Cardinality({i \in 1..Len(events) :
                 events[i].kind = "iso" /\ toPR(events[i].t).hours = h})

\* a variant in which a later hour with the same count wins
RECURSIVE BestHourLast(_, _, _)
BestHourLast(events, h, best) ==
  IF h > 23 THEN best
  ELSE BestHourLast(events, h + 1,
                    IF Bucket(events, h) > 0 /\ Bucket(events, h) >= best.count
                    THEN [isNull |-> FALSE, hour |-> h,
                          count |-> Bucket(events, h)]
                    ELSE best)

\* the second loop of computePrimeHour over the hours h..23 (Object.entries
\* lists integer keys in ascending order)
RECURSIVE BestHour(_, _, _)
BestHour(events, h, best) ==
  IF h > 23 THEN best
  ELSE BestHour(events, h + 1,
                IF Bucket(events, h) > best.count
                THEN [isNull |-> FALSE, hour |-> h,
                      count |-> Bucket(events, h)]
                ELSE best)

\* a variant in which the fullest hour whose event is listed first wins
computePrimeHourFirstSeen(events) ==
  IF Len(events) = 0 THEN NoPrime
  ELSE LET hourOf(k) == toPR(events[k].t).hours
           full(k)   == \A h \in 0..23 :
                          Bucket(events, h) <= Bucket(events, hourOf(k))
           first     == CHOOSE k \in 1..Len(events) :
                          full(k) /\ \A j \in 1..(k - 1) : ~full(j)
       IN [isNull |-> FALSE, hour |-> hourOf(first),
           count |-> Bucket(events, hourOf(first))]

computePrimeHour(events) ==
  IF Len(events) = 0 THEN NoPrime ELSE BestHour(events, 0, NoPrime)

ShutdownRecv(s, code) ==
  /\ Fresh(s)
  /\ LET r == [IdleReq EXCEPT !.kind = "shutdown"]
     IN req' = [req EXCEPT ![s] =
                  CASE code = "missing" ->
                         Finish(r, Resp(400, "missing_access_code"))
                    [] code = "invalid" ->
                         Finish(r, Resp(401, "invalid_access_code"))
                    [] OTHER -> [r EXCEPT !.pc = "sd_stats"]]
  /\ UNCHANGED <<settingsVars, authVars>>
  /\ UNCHANGED <<zone, calc, files, sheet, appEnabled, mailConfigured, failed>>

\* a variant that builds the report from the sheet as the cleanup leaves it
ShutdownStatsCleared(s, ok, now) ==
  /\ req[s].pc = "sd_stats"
  /\ IF ~ok
     THEN /\ req' = [req EXCEPT ![s] = Finish(@, Resp(500, "shutdown_failed"))]
          /\ UNCHANGED appEnabled
     ELSE /\ req' = [req EXCEPT ![s] =
                       [@ EXCEPT !.resp.report =
                                    getTodayStats(SubSeq(sheet, 1, 1), now),
                                 !.pc = IF mailConfigured THEN "sd_mail"
                                        ELSE "rl_header"]]
          /\ appEnabled' = FALSE
  /\ UNCHANGED <<settingsVars, authVars>>
  /\ UNCHANGED <<zone, calc, files, sheet, mailConfigured, failed>>

\* the values.get of getTodayStatsFromSheet answers; the report is built,
\* the app is switched off and the report mail, if any, is sent
ShutdownStats(s, ok, now) ==
  /\ req[s].pc = "sd_stats"
  /\ IF ~ok
     THEN /\ req' = [req EXCEPT ![s] = Finish(@, Resp(500, "shutdown_failed"))]
          /\ UNCHANGED appEnabled
     ELSE /\ req' = [req EXCEPT ![s] =
                       [@ EXCEPT !.resp.report = getTodayStats(sheet, now),
                                 !.pc = IF mailConfigured THEN "sd_mail"
                                        ELSE "rl_header"]]
          /\ appEnabled' = FALSE
  /\ UNCHANGED <<settingsVars, authVars>>
  /\ UNCHANGED <<zone, calc, files, sheet, mailConfigured, failed>>

\* sendMail of the shutdown report answers (an error is only logged)
ShutdownMail(s, ok) ==
  /\ req[s].pc = "sd_mail"
  /\ req' = [req EXCEPT ![s] = [@ EXCEPT !.pc = "rl_header"]]
  /\ UNCHANGED <<settingsVars, authVars>>
  /\ UNCHANGED <<zone, calc, files, sheet, appEnabled, mailConfigured, failed>>

\* writeSettingsToSheet answers and the response is sent
ShutdownPersist(s) ==
  /\ req[s].pc = "sd_persist"
  /\ req' = [req EXCEPT ![s] = Finish(@, [@.resp EXCEPT !.status = 200])]
  /\ UNCHANGED <<settingsVars, authVars>>
  /\ UNCHANGED <<zone, calc, files, sheet, appEnabled, mailConfigured, failed>>

(***************************************************************************)
(* POST /session-report-date                                               *)
(***************************************************************************)
\* the prefix DD/MM/YYYY built from a date YYYY-MM-DD
DatePrefix(date) ==
  LET parts == Split(date, "-", <<>>)
  IN parts[3] \o <<"/">> \o parts[2] \o <<"/">> \o parts[1]

\* the filter and the counting loop of the handler from row i on
RECURSIVE DateLoop(_, _, _, _)
DateLoop(rows, i, prefix, st) ==
  IF i > Len(rows) THEN st
  ELSE LET row == rows[i]
           counted ==
             [st EXCEPT
                !.visits  = IF row.type = "visit" THEN @ + 1 ELSE @,
                !.forms   = IF row.type = "form" THEN @ + 1 ELSE @,
                !.uploads = IF row.type = "upload" THEN @ + 1 ELSE @,
                !.newsletterEmails =
                   IF row.newsletter = "Y" /\ row.email # <<>>
                   THEN SetAdd(@, Trim(row.email)) ELSE @]
       IN DateLoop(rows, i + 1, prefix,
                   IF startsWith(row.pr, prefix) THEN counted ELSE st)

\* the report of POST /session-report-date over the rows read
sessionReportDate(rows, date) ==
  IF Len(rows) <= 1 THEN NoDateReport
  ELSE DateLoop(rows, 2, DatePrefix(date),
                [NoDateReport EXCEPT !.noData = FALSE])

(***************************************************************************)
(* Direct calls of the helpers, on a host in any of the zones.             *)
(***************************************************************************)
\* 2025-12-03T02:05:31Z, T04:00:00Z (midnight in Puerto Rico), T13:10:00Z,
\* 2025-12-04T03:59:59Z, 2025-03-09T06:30:00Z (half an hour before
\* America/New_York turns its clocks forward) and 2025-03-30T05:00:00Z (four
\* hours after Europe/Berlin did)
CalcInstants ==
  {1764727531, 1764734400, 1764767400, 1764820799, 1741501800, 1743310800}

\* the instants at which rows are logged: 2025-12-03T02:05:31Z and T13:10:00Z
RowInstants == {1764727531, 1764767400}

Chars(str) == StrValue(str)

\* values of the newsletter field of a request body
NewsletterValues ==
  { NullValue, Chars(<<>>), Chars(<<"t", "r", "u", "e">>),
    Chars(<<"T", "R", "U", "E">>), Chars(<<"1">>), Chars(<<"s", "í">>),
    Chars(<<"S", "Í">>), Chars(<<"S", "i">>), Chars(<<"y">>), Chars(<<"Y">>),
    Chars(<<"y", "e", "s">>), Chars(<<" ", "y">>),
    Chars(<<"f", "a", "l", "s", "e">>), Chars(<<"F", "a", "l", "s", "e">>),
    Chars(<<"0">>), Chars(<<"N", "o">>), Chars(<<"n">>), Chars(<<"2">>) }

\* calls of logEventToSheet: event type and arguments
LogInputs ==
  { [eventType |-> "visit", args |-> [NoArgs EXCEPT !.sessionId = SessionId]],
    [eventType |-> "form",
     args |-> [NoArgs EXCEPT !.email = <<"a", "@", "x">>,
                             !.newsletter = Chars(<<"S", "i">>)]],
    [eventType |-> "form",
     args |-> [NoArgs EXCEPT !.email = <<"A", "@", "x">>,
                             !.newsletter = Chars(<<"y">>),
                             !.timestampUtc = Iso(1764767400)]],
    [eventType |-> "form",
     args |-> [NoArgs EXCEPT !.email = <<" ", "a", "@", "x">>,
                             !.newsletter = Chars(<<"t", "r", "u", "e">>)]],
    [eventType |-> "form",
     args |-> [NoArgs EXCEPT !.email = <<"a", "@", "x">>,
                             !.newsletter = Chars(<<"n", "o">>),
                             !.timestampUtc = BadTs]],
    [eventType |-> "upload",
     args |-> [NoArgs EXCEPT !.sessionId = SessionId,
                             !.ticket = <<"T", "0", "0", "1">>]] }

\* a row of the sheet written by hand
SheetRow(utc, type, email, newsletter) ==
  [NoRow EXCEPT !.utc = utc, !.type = type, !.email = email,
                !.newsletter = newsletter]

\* session sheets found at start-up: empty; four events of 2025-12-03 at
\* 09:10, 09:20, 09:30 and 14:20 in Puerto Rico; two forms stamped by their
\* clients 14:20 and 09:10 of that day, in that order; three events of
\* 2025-03-30
\* at 00:10, 00:20 and 00:30 in Puerto Rico; five forms of 2025-12-03, the
\* e-mail typed with a trailing blank, in capitals or as one blank; rows
\* edited by hand, with
\* the first and the last second of 2025-12-03 in Puerto Rico and the first
\* second of the next day
InitialSheets ==
  { <<SESSION_SHEET_HEADERS>>,
    << SESSION_SHEET_HEADERS,
       SheetRow(Iso(1764767400), "visit", <<>>, ""),
       SheetRow(Iso(1764768000), "form", <<"a", "@", "x">>, "Y"),
       SheetRow(Iso(1764768600), "upload", <<>>, ""),
       SheetRow(Iso(1764786000), "visit", <<>>, "") >>,
    << SESSION_SHEET_HEADERS,
       SheetRow(Iso(1764786000), "form", <<"a", "@", "x">>, "N"),
       SheetRow(Iso(1764767400), "form", <<"b", "@", "x">>, "N") >>,
    << SESSION_SHEET_HEADERS,
       SheetRow(Iso(1743307800), "visit", <<>>, ""),
       SheetRow(Iso(1743308400), "visit", <<>>, ""),
       SheetRow(Iso(1743309000), "upload", <<>>, "") >>,
    << SESSION_SHEET_HEADERS,
       SheetRow(Iso(1764767400), "form", <<"a", "@", "x">>, "Y"),
       SheetRow(Iso(1764768000), "form", <<"a", "@", "x", " ">>, "Y"),
       SheetRow(Iso(1764768600), "form", <<"A", "@", "x">>, "Y"),
       SheetRow(Iso(1764768600), "form", <<" ">>, "Y"),
       SheetRow(Iso(1764786000), "form", <<"n", "@", "x">>, "N") >>,
    << SESSION_SHEET_HEADERS,
       SheetRow(BadTs, "visit", <<>>, ""),
       SheetRow(Iso(1764767400), "", <<"c">>, "Y"),
       SheetRow(Iso(1764767400), "other", <<"a", "@", "x">>, "Y"),
       SheetRow(NoTs, "form", <<"d">>, "Y"),
       SheetRow(Iso(1764727531), "form", <<"b">>, "Y"),
       SheetRow(Iso(1764734400), "upload", <<"a", "@", "x">>, "Y"),
       SheetRow(Iso(1764820799), "visit", <<"a", "@", "x">>, "N"),
       SheetRow(Iso(1764820800), "visit", <<"e">>, "Y") >> }

Returned(c) ==
  /\ calc' = c
  /\ UNCHANGED <<settingsVars, authVars>>
  /\ UNCHANGED <<zone, files, appEnabled, mailConfigured, req, failed>>

\* POST /session-report-date with this date in the body; fetched: the
\* values.get resolves; mailed: the sendMail call, if made, resolves
ReportDateCall(date, fetched, mailed) ==
  LET c      == [NoCalc EXCEPT !.op = "reportDate", !.str = date]
      report == sessionReportDate(sheet, date)
      mails  == mailConfigured /\ ~report.noData
  IN /\ Returned(IF date = <<>> THEN [c EXCEPT !.status = 400]
                 ELSE IF ~fetched \/ (mails /\ ~mailed)
                 THEN [c EXCEPT !.status = 500]
                 ELSE [c EXCEPT !.status = 200, !.report = report])
     /\ UNCHANGED sheet

\* names of Drive items (<<>>: an item without name)
ItemNames ==
  { <<>>, <<"T", "0", "0", "1", "-", "a">>, <<"T", "1", "2", "3", "4", "-">>,
    <<"T", "0", "0", "0", "-", "a">>, <<"T", "1", "2", "-", "x">>,
    <<"T", "0", "0", "1", "_", "x">>, <<"T", "0", "0", "1">>,
    <<"T", "0", "0", "a", "-">>, <<"x", "T", "0", "0", "1", "-">>,
    <<"0", "7", "_", "x">>, <<"1", "2", "3", "_">>, <<"7", "_", "x">>,
    <<"0", "0", "1", "-", "x">>, <<"0", "7">>, <<"a", ".", "j", "p", "g">> }

\* the index the scan of getMaxIndexInFolderWithTrashFlag takes from a name
IndexCall(name) ==
  /\ Returned([NoCalc EXCEPT !.op = "index", !.str = name,
                             !.idx = NameIndex(name)])
  /\ UNCHANGED sheet

\* getNewsletterFlag(value)
FlagCall(value) ==
  /\ Returned([NoCalc EXCEPT !.op = "flag", !.value = value,
                             !.flag = getNewsletterFlag(value)])
  /\ UNCHANGED sheet

\* formatPRDateTimeShort(toPR(new Date(t)))
ToPRCall(t) ==
  /\ Returned([NoCalc EXCEPT !.op = "toPR", !.t = t,
                             !.str = formatPRDateTimeShort(toPR(t))])
  /\ UNCHANGED sheet

\* getTodayPRRangeUtc() when the clock reads now
RangeCall(now) ==
  /\ Returned([NoCalc EXCEPT !.op = "range", !.now = now,
                             !.range = getTodayPRRangeUtc(now)])
  /\ UNCHANGED sheet

\* computePrimeHour(stats.eventsForPrimeHour) after getTodayStatsFromSheet()
\* when the clock reads now
StatsCall(now) ==
  LET stats == getTodayStatsFromSheet(sheet, now)
  IN /\ Returned([NoCalc EXCEPT
                    !.op = "stats", !.now = now, !.stats = stats,
                    !.range = getTodayPRRangeUtc(now),
                    !.prime = computePrimeHour(stats.eventsForPrimeHour)])
     /\ UNCHANGED sheet

\* logEventToSheet(eventType, args) when the clock reads now; ok: the append
\* call, if made, resolves
LogEventCall(eventType, args, now, ok) ==
  LET row == logEventRow(eventType, args, now)
      c   == [NoCalc EXCEPT !.op = "logEvent", !.now = now,
                            !.ts = args.timestampUtc, !.before = Len(sheet)]
  IN IF row = NoRow
     THEN ok /\ Returned(c) /\ UNCHANGED sheet
     ELSE IF ok
     THEN RoomForRow /\ Returned(c) /\ sheet' = valuesAppend(sheet, row)
     ELSE Returned([c EXCEPT !.threw = TRUE]) /\ UNCHANGED sheet

(***************************************************************************)
(* Specifications.                                                         *)
(***************************************************************************)
\* Spec: uploads and the admin photo actions overlap freely, from empty
\* folders.
InitEmpty == Init /\ files = <<>> /\ mailConfigured = TRUE /\ zone = "UTC"

Arrive(s) == \E hasBody \in BOOLEAN : UploadRecv(s, hasBody)

Answer(s) ==
  \/ \E p \in Partitions, ok \in BOOLEAN, now \in ClockInstants :
       UploadList(s, p, ok, now)
  \/ \E ok \in BOOLEAN, now \in ClockInstants : UploadCreate(s, ok, now)
  \/ \E ok \in BOOLEAN : LogAppend(s, ok)

Admin ==
  \/ \E fileId \in FileIds, ok \in BOOLEAN : Approve(fileId, ok)
  \/ \E fileId \in FileIds, ok \in BOOLEAN : Reject(fileId, ok)
  \/ \E fileId \in FileIds, ok \in BOOLEAN : DeleteApproved(fileId, ok)

\* an upload is admitted while the uploads stored and in flight leave room
\* under the bounds, so that every admitted upload can still be stored
Admitted ==
  LET inFlight == Cardinality({x \in Slots : UploadInFlight(req[x])})
  IN /\ Cardinality(Uploaded) + inFlight < MaxUploads
     /\ Len(files) + inFlight < MaxFiles

Next ==
  \/ Admitted /\ \E s \in Slots : Arrive(s)
  \/ \E s \in Slots : Answer(s)
  \/ Admin

Spec == InitEmpty /\ [][Next]_vars

\* SpecSeq: uploads, clear-drive and the admin photo actions, one request at
\* a time (a request arrives only when none is in flight), from any of the
\* initial folder contents.
InitSeq == Init /\ mailConfigured = TRUE /\ zone = "UTC"

Calm == \A s \in Slots : Free(s)

ArriveSeq(s) ==
  \/ Arrive(s)
  \/ ClearRecv(s)

AnswerSeq(s) ==
  \/ Answer(s)
  \/ \E ok \in BOOLEAN : ClearList(s, ok)
  \/ \E ok \in BOOLEAN : ClearTrash(s, ok)

NextSeq ==
  \/ Calm /\ \E s \in Slots : ArriveSeq(s)
  \/ \E s \in Slots : AnswerSeq(s)
  \/ Calm /\ Admin

SpecSeq == InitSeq /\ [][NextSeq]_vars

\* SpecLog: the requests that write the session sheet or switch the app, one
\* at a time except for POST /admin/app-status, from empty folders.
InitLog == Init /\ files = <<>> /\ zone = "UTC"

ArriveLog(s) ==
  \/ Arrive(s)
  \/ \E now \in ClockInstants : PingRecv(s, now)
  \/ \E body \in VisitBodies, now \in ClockInstants : VisitRecv(s, body, now)
  \/ ResetRecv(s)
  \/ \E code \in AccessCodes : ShutdownRecv(s, code)

AnswerLog(s) ==
  \/ Answer(s)
  \/ \E ok \in BOOLEAN : VisitMail(s, ok)
  \/ \E ok \in BOOLEAN : ResetStep(s, ok)
  \/ \E ok \in BOOLEAN, now \in ClockInstants : ShutdownStats(s, ok, now)
  \/ \E ok \in BOOLEAN : ShutdownMail(s, ok)
  \/ \E ok \in BOOLEAN : ClearList(s, ok)
  \/ \E ok \in BOOLEAN : ClearTrash(s, ok)
  \/ ShutdownPersist(s)

NextLog ==
  \/ Calm /\ \E s \in Slots : ArriveLog(s)
  \/ \E s \in Slots : AnswerLog(s)
  \/ \E enabled \in BOOLEAN, code \in AccessCodes : AppStatus(enabled, code)

SpecLog == InitLog /\ [][NextLog]_vars

\* SpecLogLive: SpecLog where every awaited call is answered in the end,
\* except values.append, which may stay pending for ever.
OtherAnswers(s) == req[s].pc # "append" /\ AnswerLog(s)

\* SpecSettings: the start-up hydration is in flight; GET requests hydrate
\* and POST /admin/settings updates, all overlapping.
InitialSettingsSheets ==
  { NoSettingsRows,
    SettingsRows([ticketEnabled |-> FALSE,
                  galleryDisplayLimit |-> <<"l", "a", "s", "t", "2", "5">>],
                 TRUE),
    SettingsRows(DEFAULT_APP_SETTINGS, FALSE) }

InitSettings ==
  /\ appSettings = DEFAULT_APP_SETTINGS
  /\ settingsLoadedFromSheet = FALSE
  /\ settingsSheet \in InitialSettingsSheets
  /\ hyd = [h \in HydIds |-> IF h = 0 THEN [NoHyd EXCEPT !.pc = "read"]
                              ELSE NoHyd]
  /\ adminUpdate = NoUpdate
  /\ reads = 0
  /\ applies = 0
  /\ AuthAtRest
  /\ zone = "UTC"
  /\ calc = NoCalc
  /\ files = <<>>
  /\ sheet = <<SESSION_SHEET_HEADERS>>
  /\ appEnabled = TRUE
  /\ mailConfigured = TRUE
  /\ req = [s \in Slots |-> IdleReq]
  /\ failed = 0

NextSettings ==
  \/ \E h \in HydIds : HydrateCall(h)
  \/ \E h \in HydIds, ok \in BOOLEAN : SettingsRead(h, ok)
  \/ \E h \in HydIds : HydrateApply(h)
  \/ \E patch \in SettingsPatches : SettingsRecv(patch)
  \/ \E ok \in BOOLEAN : SettingsPersist(ok)

SpecSettings == InitSettings /\ [][NextSettings]_vars

\* SpecAuth: logins, admin requests and unblocks from two IPs while time
\* passes.
NextAuth ==
  \/ \E ip \in IPs, code \in {"missing", "wrong", "correct"} :
       AdminAuth(ip, code)
  \/ \E ip \in IPs, token \in tokens \cup {NoToken} : AdminGate(ip, token)
  \/ \E ip \in IPs, keyOk \in BOOLEAN : AdminUnblock(ip, keyOk)
  \/ Tick

InitAuth == Init /\ files = <<>> /\ zone = "UTC" /\ mailConfigured = TRUE

SpecAuth == InitAuth /\ [][NextAuth]_vars

SpecLogLive ==
  InitLog /\ [][NextLog]_vars /\ \A s \in Slots : WF_vars(OtherAnswers(s))

\* SpecCalc: direct calls of the helpers and of logEventToSheet, on a host
\* in any zone, from any of the initial sheets.
InitCalc ==
  /\ SettingsAtRest
  /\ AuthAtRest
  /\ zone \in Zones
  /\ calc = NoCalc
  /\ files = <<>>
  /\ sheet \in InitialSheets
  /\ appEnabled = TRUE
  /\ mailConfigured = TRUE
  /\ req = [s \in Slots |-> IdleReq]
  /\ failed = 0

NextCalc ==
  \/ \E value \in NewsletterValues : FlagCall(value)
  \/ \E t \in CalcInstants : ToPRCall(t)
  \/ \E now \in CalcInstants : RangeCall(now)
  \/ \E now \in CalcInstants : StatsCall(now)
  \/ \E name \in ItemNames : IndexCall(name)

SpecCalc == InitCalc /\ [][NextCalc]_vars

\* SpecRows: events logged by direct calls of logEventToSheet into the empty
\* sheet, the statistics of the day read back and newsletter values
\* normalised, on a host in any zone.
InitRows == InitCalc /\ sheet = <<SESSION_SHEET_HEADERS>>

NextRows ==
  \/ \E in \in LogInputs, now \in RowInstants, ok \in BOOLEAN :
       LogEventCall(in.eventType, in.args, now, ok)
  \/ \E now \in RowInstants : StatsCall(now)
  \/ \E value \in NewsletterValues : FlagCall(value)

SpecRows == InitRows /\ [][NextRows]_vars

\* SpecOrder: the statistics of the day and the prime hour over every
\* arrangement of the data rows of small logs (rows stamped by clients or
\* moved by hand are not in time order), on a host in any zone.
MaxOrdered == 4

Arrangements(n) ==
  {p \in [1..n -> 1..n] : \A i, j \in 1..n : p[i] = p[j] => i = j}

\* the rows of a log with its data rows in the order p
Arranged(rows, p) ==
  [i \in 1..Len(rows) |-> IF i = 1 THEN rows[1] ELSE rows[p[i - 1] + 1]]

OrderSeeds ==
  {rows \in InitialSheets : Len(rows) <= MaxOrdered + 1} \cup
  { << SESSION_SHEET_HEADERS,
       SheetRow(Iso(1764786000), "visit", <<>>, ""),
       SheetRow(Iso(1764767400), "form", <<"a", "@", "x">>, "Y"),
       SheetRow(Iso(1764786600), "upload", <<"a", "@", "x">>, "Y"),
       SheetRow(Iso(1764768000), "form", <<"b", "@", "x">>, "N") >> }

OrderedSheets ==
  UNION {{Arranged(rows, p) : p \in Arrangements(Len(rows) - 1)} :
           rows \in OrderSeeds}

InitOrder ==
  /\ SettingsAtRest
  /\ AuthAtRest
  /\ zone \in Zones
  /\ calc = NoCalc
  /\ files = <<>>
  /\ sheet \in OrderedSheets
  /\ appEnabled = TRUE
  /\ mailConfigured = TRUE
  /\ req = [s \in Slots |-> IdleReq]
  /\ failed = 0

NextOrder == \E now \in CalcInstants : StatsCall(now)

SpecOrder == InitOrder /\ [][NextOrder]_vars

\* SpecReport: events logged by direct calls of logEventToSheet into the
\* empty sheet at 2025-12-03T04:10:00Z and T13:10:00Z (00:10 and 09:10 in
\* Puerto Rico), the statistics of the day and the report of a date read
\* back, on a host in any zone.
ReportInstants == {1764735000, 1764767400}

ReportInputs ==
  { [eventType |-> "visit", args |-> [NoArgs EXCEPT !.sessionId = SessionId]],
    [eventType |-> "form",
     args |-> [NoArgs EXCEPT !.email = <<"a", "@", "x">>,
                             !.newsletter = Chars(<<"S", "i">>)]],
    [eventType |-> "form",
     args |-> [NoArgs EXCEPT !.email = <<" ">>,
                             !.newsletter = Chars(<<"y">>)]],
    [eventType |-> "upload",
     args |-> [NoArgs EXCEPT !.sessionId = SessionId,
                             !.ticket = <<"T", "0", "0", "1">>]] }

\* the date field of the request body (<<>>: none)
ReportDates ==
  { <<>>, <<"2", "0", "2", "5", "-", "1", "2", "-", "0", "3">>,
    <<"2", "0", "2", "5", "-", "1", "2", "-", "0", "2">> }

NextReport ==
  \/ \E in \in ReportInputs, now \in ReportInstants, ok \in BOOLEAN :
       LogEventCall(in.eventType, in.args, now, ok)
  \/ \E now \in ReportInstants : StatsCall(now)
  \/ \E date \in ReportDates, fetched, mailed \in BOOLEAN :
       ReportDateCall(date, fetched, mailed)

SpecReport == InitRows /\ [][NextReport]_vars

(***************************************************************************)
(* Properties.                                                             *)
(***************************************************************************)
IsPrefix(a, b) == Len(a) <= Len(b) /\ SubSeq(b, 1, Len(a)) = a

UploadReqs == {s \in Slots : req[s].kind = "upload"}

\* every file is an upload's artifact that no admin action has touched (the
\* folders were empty at start-up and only uploads changed them)
OnlyUploads ==
  \A i \in 1..Len(files) :
    files[i].origin = "upload" /\ files[i].parents = {PENDING}
      /\ ~files[i].trashed

\* C1 (SpecSeq): from empty folders, with uploads running one at a time and
\* nothing else changing the folders, the k-th upload that stores its
\* artifact is issued number k: the numbers start at 1, increase by one and
\* never repeat.
C1_SequentialTickets ==
  OnlyUploads =>
    /\ \A k \in 1..Len(files) :
         files[k].ticket = k /\ NameIndex(files[k].name) = k
    /\ \A s \in UploadReqs :
         req[s].resp.fileId # 0 => req[s].resp.ticketIndex = req[s].resp.fileId

\* two uploads in a row were issued 1 and 2
C1_Witness ==
  /\ OnlyUploads /\ Len(files) = 2
  /\ files[1].ticket = 1 /\ files[2].ticket = 2
  /\ \E s \in UploadReqs : req[s].pc = "done" /\ req[s].resp.ticketIndex = 2

\* C2 (Spec): the number an allocation returns is not borne by any upload
\* artifact that was stored before the upload arrived, whatever the admin
\* actions (approve, reject, delete-approved) since that artifact was stored.
C2_NeverReissued ==
  \A s \in UploadReqs :
    req[s].pc = "create" =>
      \A i \in 1..req[s].since :
        files[i].origin = "upload" => files[i].ticket # req[s].nextIndex

\* C3 (Spec): an upload whose artifact is stored under a number that another
\* stored artifact bears goes on to be answered ok (200, no error): the
\* duplicate is neither detected nor reported.
C3_DuplicateUnreported ==
  \A s \in UploadReqs :
    LET r == req[s] IN
      (/\ r.resp.fileId # 0
       /\ \E j \in Uploaded \ {r.resp.fileId} :
            files[j].ticket = r.resp.ticketIndex)
      => /\ r.pc \in {"append", "done"}
         /\ r.resp.error = ""
         /\ r.pc = "done" => r.resp.status = 200

\* two overlapping uploads were both answered ok with the same number, and
\* both artifacts are stored, untouched, in Pending
C3_Witness ==
  /\ req[1].kind = "upload" /\ req[2].kind = "upload"
  /\ req[1].pc = "done" /\ req[2].pc = "done"
  /\ req[1].resp.status = 200 /\ req[2].resp.status = 200
  /\ req[1].resp.fileId # req[2].resp.fileId
  /\ req[1].resp.ticketIndex = req[2].resp.ticketIndex
  /\ req[1].resp.ticketLabel = req[2].resp.ticketLabel
  /\ OnlyUploads /\ Len(files) = 2
  /\ NameIndex(files[1].name) = NameIndex(files[2].name)

\* C4 (SpecSeq): after a create call that rejected for number n (failed = n
\* until a file is created or changed), no file bears n, the request was
\* answered 500 without an artifact, and the next allocation returns n.
C4_FailedNotBurnt ==
  /\ failed # 0 =>
       \A i \in 1..Len(files) : NameIndex(files[i].name) # failed
  /\ \A s \in UploadReqs :
       /\ (req[s].pc = "create" /\ failed # 0) => req[s].nextIndex = failed
       /\ req[s].rejected = "create" =>
            /\ req[s].pc = "done" /\ req[s].resp.status = 500
            /\ req[s].resp.fileId = 0 /\ req[s].logged = "none"

\* number 2 is allocated again after its create call rejected, while the
\* trashed artifact 1 keeps its number out of use
C4_Witness ==
  \E s \in UploadReqs :
    /\ req[s].pc = "create" /\ failed = 2 /\ req[s].nextIndex = 2
    /\ Len(files) = 1 /\ files[1].origin = "upload" /\ files[1].trashed
    /\ files[1].ticket = 1

\* C5 (Spec): an upload one of whose listing calls rejected is over at once
\* (no retry), answered 500, has stored no artifact and has appended no row.
C5_ListingFailureFatal ==
  \A s \in UploadReqs :
    req[s].rejected = "list" =>
      /\ req[s].pc = "done"
      /\ req[s].resp.status = 500
      /\ req[s].resp.fileId = 0
      /\ req[s].logged = "none"

\* an upload ended by a rejected listing while another upload's artifact is
\* stored and no row was written
C5_Witness ==
  \E s \in UploadReqs :
    /\ req[s].rejected = "list" /\ req[s].pc = "done"
    /\ Len(files) = 1 /\ Len(sheet) = 1

\* the largest index among the names of a set of files (0: none)
MaxNameIndex(ids) ==
  IF \A i \in ids : NameIndex(files[i].name) = 0 THEN 0
  ELSE SetMax({NameIndex(files[i].name) : i \in ids})

\* C6 (SpecSeq): the allocation has listed every file of the four partitions
\* (all pages) and returns 1 + the largest index among their names, 1 when
\* no name yields an index; names without an index do not stop it.
C6_NextIndex ==
  \A s \in UploadReqs :
    req[s].pc = "create" =>
      /\ req[s].seen = 1..Len(files)
      /\ req[s].nextIndex = 1 + MaxNameIndex(1..Len(files))

\* an allocation over three files, one of them named without an index, one
\* trashed in Approved with a legacy name, two pages of active Pending files
C6_Witness ==
  \E s \in UploadReqs :
    /\ req[s].pc = "create" /\ req[s].nextIndex = 9
    /\ Len(files) = 3
    /\ NameIndex(files[1].name) = 0 /\ NameIndex(files[2].name) = 7
    /\ files[2].trashed /\ files[2].parents = {APPROVED}
    /\ files[3].parents = {PENDING} /\ ~files[3].trashed

\* str is n in decimal, zero-padded to three digits and never cut
PaddedDigits(n, str) ==
  /\ Len(str) >= 3
  /\ \A i \in 1..Len(str) : IsDigit(str[i])
  /\ ParseInt(str) = n
  /\ Len(str) > 3 => str[1] # "0"

\* C7 (SpecSeq): an upload that stored its artifact has added exactly one
\* file, in Pending and not trashed, whose name starts with ticketLabel "-";
\* ticketLabel is "T" and ticketDisplay "#" before ticketIndex padded to at
\* least three digits; into empty folders it is 1, T001, #001.
C7_StoredArtifact ==
  \A s \in UploadReqs :
    LET r == req[s]
        digits == Tail(r.resp.ticketLabel)
    IN r.resp.fileId # 0 =>
         /\ r.resp.fileId \in 1..Len(files)
         /\ r.resp.ticketIndex >= 1
         /\ Head(r.resp.ticketLabel) = "T"
         /\ PaddedDigits(r.resp.ticketIndex, digits)
         /\ r.resp.ticketDisplay = <<"#">> \o digits
         /\ IsPrefix(r.resp.ticketLabel \o <<"-">>, files[r.resp.fileId].name)
         /\ r.pc = "append" =>
              /\ Len(files) = r.since + 1 /\ r.resp.fileId = Len(files)
              /\ files[r.resp.fileId].parents = {PENDING}
              /\ ~files[r.resp.fileId].trashed
         /\ r.resp.fileId = 1 =>
              /\ r.resp.ticketIndex = 1
              /\ r.resp.ticketLabel = <<"T", "0", "0", "1">>
              /\ r.resp.ticketDisplay = <<"#", "0", "0", "1">>

\* an upload answered ok with number 1000 and label T1000
C7_Witness ==
  \E s \in UploadReqs :
    /\ req[s].pc = "done" /\ req[s].resp.status = 200
    /\ req[s].resp.ticketIndex = 1000
    /\ req[s].resp.ticketLabel = <<"T", "1", "0", "0", "0">>
    /\ req[s].resp.ticketDisplay = <<"#", "1", "0", "0", "0">>

\* what one step may do to the files
FilesStep ==
  /\ Len(files') >= Len(files)
  /\ \A i \in 1..Len(files) :
       /\ files'[i].name = files[i].name
       /\ \/ files'[i].parents = files[i].parents
          \/ /\ files[i].parents = {PENDING}
             /\ files'[i].parents = {APPROVED}
             /\ files'[i].trashed = files[i].trashed
       /\ files[i].trashed => files'[i].trashed

\* C8 (SpecSeq): every upload artifact has exactly one parent, Pending or
\* Approved; a step changes a file only by moving it from Pending to
\* Approved or by setting its trashed flag, which leaves name and parent
\* alone; no step removes a file.
C8_ArtifactLifecycle ==
  /\ [](\A i \in Uploaded :
          Cardinality(files[i].parents) = 1 /\ files[i].parents \subseteq Folders)
  /\ [][FilesStep]_vars

\* an upload artifact approved and then trashed, next to one still in Pending
C8_Witness ==
  /\ Len(files) = 2 /\ Uploaded = {1, 2}
  /\ files[1].parents = {APPROVED} /\ files[1].trashed
  /\ files[2].parents = {PENDING} /\ ~files[2].trashed

\* C9 as stated (SpecLog): the data rows before a step are a prefix of the
\* data rows after it, whatever the step.
C9_AppendOnly == [][IsPrefix(DataRows(sheet), DataRows(sheet'))]_vars

\* the values.clear call of resetSessionLogs answers
ClearsRows ==
  \E s \in Slots :
    /\ req[s].kind \in {"reset", "shutdown"} /\ req[s].pc = "rl_clear"
    /\ req'[s].pc # "rl_clear"

\* C9 amended (SpecLog): every step but the clear call of resetSessionLogs
\* (POST /admin/reset-logs, the cleanup of POST /admin/shutdown) leaves the
\* data rows a prefix of the rows after it; that call removes all of them.
C9_AppendOnlyUntilReset ==
  [][/\ Head(sheet') = Head(sheet)
     /\ \/ IsPrefix(DataRows(sheet), DataRows(sheet'))
        \/ ClearsRows /\ DataRows(sheet') = <<>>]_vars

\* a shutdown that counted a logged visit and then cleared the sheet
C9_Witness ==
  \E s \in Slots :
    /\ req[s].kind = "shutdown" /\ req[s].pc = "cd_pending"
    /\ req[s].resp.report.visits = 1
    /\ DataRows(sheet) = <<>>

EventTypeOf(kind) ==
  CASE kind = "ping" -> "visit" [] kind = "visit" -> "form"
    [] kind = "upload" -> "upload" [] OTHER -> ""

\* C10 as stated (SpecLog): a POST /visit answered ok, no append call of
\* which rejected, has appended its row.
C10_EveryVisitLogged ==
  \A s \in Slots :
    (/\ req[s].kind = "visit" /\ req[s].pc = "done"
     /\ req[s].resp.status = 200 /\ req[s].logged # "rejected")
    => req[s].logged = "ok"

\* the append call of a request answers
AppendAnswers(s) == req[s].pc = "append" /\ req'[s].pc # "append"

LogStep ==
  /\ \A s \in Slots :
       AppendAnswers(s) =>
         IF req'[s].logged = "ok"
         THEN LET row == sheet'[Len(sheet')] IN
              /\ Len(sheet') = Len(sheet) + 1 /\ IsPrefix(sheet, sheet')
              /\ row.type = EventTypeOf(req[s].kind)
              /\ IF req[s].kind = "upload"
                 THEN /\ row.ticket = req[s].resp.ticketLabel
                      /\ req[s].resp.fileId \in 1..Len(files)
                      /\ IsPrefix(row.ticket \o <<"-">>,
                                  files[req[s].resp.fileId].name)
                 ELSE row.ticket = <<>>
         ELSE sheet' = sheet
  /\ Len(sheet') > Len(sheet) =>
       \E s \in Slots : AppendAnswers(s) /\ req'[s].logged = "ok"

LogState ==
  /\ \A s \in Slots :
       LET r == req[s] IN
         /\ (r.kind = "upload" /\ r.pc = "done" /\ r.resp.status # 200)
              => r.logged = "none"
         /\ (r.kind \in {"upload", "ping"} /\ r.pc = "done"
               /\ r.resp.status = 200)
              => r.logged \in {"ok", "rejected"}
         /\ (r.kind = "visit" /\ r.pc \in {"mail", "done"}
               /\ r.resp.status # 503)
              => r.logged \in {"ok", "rejected", "skipped"}
  /\ \A i \in 2..Len(sheet) :
       /\ sheet[i].type \in {"visit", "form", "upload"}
       /\ sheet[i].ticket # <<>> <=> sheet[i].type = "upload"

\* C10 amended (SpecLog): an append call that succeeds adds exactly one row,
\* of type visit for POST /ping, form for POST /visit, upload with the
\* upload's ticket label for POST /upload, whose artifact is stored by then;
\* rows are added by these calls only; every handled ping and every upload
\* answered ok made the call, an upload that failed did not, a POST /visit
\* made it unless its timestamp does not parse as a date; only upload rows
\* carry a ticket.
C10_OneRowPerEvent == []LogState /\ [][LogStep]_vars

\* a form row and the upload row of an upload answered ok, with its label
C10_Witness ==
  /\ Len(sheet) = 3
  /\ sheet[2].type = "form" /\ sheet[3].type = "upload"
  /\ sheet[3].ticket = <<"T", "0", "0", "1">>
  /\ \E s \in UploadReqs :
       /\ req[s].pc = "done" /\ req[s].resp.status = 200
       /\ req[s].logged = "ok"
       /\ req[s].resp.ticketLabel = sheet[3].ticket

C12_AppendFailureInvisible ==
  [][\A s \in Slots :
       (req[s].pc = "append" /\ req'[s] # req[s]) =>
         CASE req[s].kind = "upload" ->
                /\ req'[s].pc = "done"
                /\ req'[s].resp = [req[s].resp EXCEPT !.status = 200]
           [] req[s].kind = "ping" ->
                req'[s].pc = "done" /\ req'[s].resp = Resp(200, "")
           [] req[s].kind = "visit" ->
                IF mailConfigured THEN req'[s].pc = "mail"
                ELSE /\ req'[s].pc = "done"
                     /\ req'[s].resp = Resp(500, "mail_disabled")]_vars

\* a /visit whose append was rejected, answered 200 after its e-mail was
\* sent, the sheet still without a data row
C12_Witness ==
  /\ Len(sheet) = 1
  /\ \E s \in Slots :
       /\ req[s].kind = "visit" /\ req[s].pc = "done"
       /\ req[s].logged = "rejected" /\ req[s].resp.status = 200

\* C13: once the artifact of an /upload is stored, or a /ping or /visit is
\* received, and the handler has issued the append of its log row, the
\* response is sent in the end, whether or not the append is ever answered.
C13_ResponseEventuallySent ==
  \A s \in Slots :
    (req[s].kind \in {"upload", "ping", "visit"} /\ req[s].pc = "append")
      ~> (req[s].pc = "done")

\* C14: without mail credentials a /visit that the application admits is not
\* answered with an error status: its e-mail step is skipped.
C14_NoMailNoError ==
  \A s \in Slots :
    ( /\ req[s].kind = "visit" /\ req[s].pc = "done"
      /\ ~mailConfigured /\ req[s].resp.error # "app_offline" )
      => req[s].resp.status < 400

\* C15: getNewsletterFlag gives '' for null, 'Y' for true, 1, sí, si and y in
\* any letter case, 'N' for false, 0, no and n in any letter case and '' for
\* anything else; the newsletter cell of every data row is 'Y', 'N' or ''.
C15_YesValues ==
  { Chars(<<"t", "r", "u", "e">>), Chars(<<"T", "R", "U", "E">>),
    Chars(<<"1">>), Chars(<<"s", "í">>), Chars(<<"S", "Í">>),
    Chars(<<"S", "i">>), Chars(<<"y">>), Chars(<<"Y">>) }

C15_NoValues ==
  { Chars(<<"f", "a", "l", "s", "e">>), Chars(<<"F", "a", "l", "s", "e">>),
    Chars(<<"0">>), Chars(<<"N", "o">>), Chars(<<"n">>) }

C15_NewsletterFlag ==
  /\ calc.op = "flag" =>
       calc.flag = IF calc.value \in C15_YesValues THEN "Y"
                   ELSE IF calc.value \in C15_NoValues THEN "N"
                   ELSE ""
  /\ \A i \in 2..Len(sheet) : sheet[i].newsletter \in {"Y", "N", ""}

\* 'SÍ' normalised to 'Y' while the sheet holds a form row logged with
\* newsletter 'Si' as 'Y'
C15_Witness ==
  /\ calc.op = "flag" /\ calc.value = Chars(<<"S", "Í">>) /\ calc.flag = "Y"
  /\ Len(sheet) >= 2
  /\ sheet[2].type = "form" /\ sheet[2].newsletter = "Y"
  /\ sheet[2].email = <<"a", "@", "x">>

\* the data rows whose timestamp parses and lies in the closed window the
\* statistics were computed for
InWindowRows ==
  {i \in 2..Len(sheet) :
     /\ sheet[i].utc.kind = "iso"
     /\ sheet[i].utc.t >= calc.range.startUtc
     /\ sheet[i].utc.t <= calc.range.endUtc}

\* those with an event type
TypedRows == {i \in InWindowRows : sheet[i].type # ""}

RowsOfType(rows, type) == Cardinality({i \in rows : sheet[i].type = type})

\* C16 as stated: the statistics count, per type, exactly the data rows whose
\* timestamp parses and lies in the closed window, and every such row,
\* whatever its type, gives one entry of the hour-bucketing list.
C16_CountsInWindow ==
  calc.op = "stats" =>
    /\ calc.stats.visits = RowsOfType(InWindowRows, "visit")
    /\ calc.stats.forms = RowsOfType(InWindowRows, "form")
    /\ calc.stats.uploads = RowsOfType(InWindowRows, "upload")
    /\ Len(calc.stats.eventsForPrimeHour) = Cardinality(InWindowRows)

\* C16 amended: the same for the rows that have an event type; a row whose
\* event-type cell is empty is skipped like a row outside the window.  The
\* entries of the hour-bucketing list are the timestamps of the counted rows,
\* in the order of the sheet.
C16_CountsTypedInWindow ==
  calc.op = "stats" =>
    /\ calc.stats.visits = RowsOfType(TypedRows, "visit")
    /\ calc.stats.forms = RowsOfType(TypedRows, "form")
    /\ calc.stats.uploads = RowsOfType(TypedRows, "upload")
    /\ Len(calc.stats.eventsForPrimeHour) = Cardinality(TypedRows)
    /\ \A k \in 1..Len(calc.stats.eventsForPrimeHour) :
         \E i \in TypedRows :
           /\ sheet[i].utc = calc.stats.eventsForPrimeHour[k]
           /\ Cardinality({j \in TypedRows : j < i}) = k - 1

\* the sheet edited by hand read at 2025-12-03T13:10:00Z on a UTC host: the
\* rows at the first and at the last second of the day are counted, the row of
\* type 'other' is bucketed only, five rows are skipped
C16_Witness ==
  /\ calc.op = "stats" /\ calc.now = 1764767400 /\ zone = "UTC"
  /\ Len(sheet) = 9
  /\ calc.stats.visits = 1 /\ calc.stats.forms = 0 /\ calc.stats.uploads = 1
  /\ Len(calc.stats.eventsForPrimeHour) = 3

\* the hour of the instant t on a clock four hours behind UTC
HourUtcMinus4(t) == ((t - 4 * 60 * 60) % 86400) \div 3600

\* the events of the last statistics whose UTC-4 hour is h
EventsInHour(h) ==
  Cardinality({k \in 1..Len(calc.stats.eventsForPrimeHour) :
                 HourUtcMinus4(calc.stats.eventsForPrimeHour[k].t) = h})

\* C17: computePrimeHour returns null when the day has no event in its window,
\* and otherwise an hour of the UTC-4 clock that holds at least as many of the
\* day's events as any other hour, with the number of events in that hour.
C17_PrimeHour ==
  calc.op = "stats" =>
    IF Len(calc.stats.eventsForPrimeHour) = 0 THEN calc.prime.isNull
    ELSE /\ ~calc.prime.isNull
         /\ calc.prime.count = EventsInHour(calc.prime.hour)
         /\ \A h \in 0..23 : EventsInHour(h) <= calc.prime.count

\* the entries of the newsletter list of the last statistics
ListedEmails ==
  {calc.stats.newsletterEmails[k] :
     k \in 1..Len(calc.stats.newsletterEmails)}

\* C18 as stated: newsletterEmails holds, exactly once each, the e-mail cell of
\* every in-window row whose newsletter cell is 'Y' and whose e-mail cell is
\* not empty; cells are compared as they are.
C18_NewsletterEmails ==
  calc.op = "stats" =>
    LET optIn == {sheet[i].email :
                    i \in {j \in InWindowRows :
                             /\ sheet[j].newsletter = "Y"
                             /\ sheet[j].email # <<>>}}
    IN /\ ListedEmails = optIn
       /\ Len(calc.stats.newsletterEmails) = Cardinality(optIn)

\* C18 amended: newsletterEmails holds, exactly once each, the e-mail cell
\* without its leading and trailing blanks of every counted in-window row
\* whose newsletter cell is 'Y' and whose e-mail cell holds more than blanks;
\* e-mails that differ in letter case stay distinct.
C18_TrimmedNewsletterEmails ==
  calc.op = "stats" =>
    LET optIn == {Trim(sheet[i].email) :
                    i \in {j \in TypedRows :
                             /\ sheet[j].newsletter = "Y"
                             /\ Trim(sheet[j].email) # <<>>}}
    IN /\ ListedEmails = optIn
       /\ Len(calc.stats.newsletterEmails) = Cardinality(optIn)

\* the five forms of 2025-12-03: 'a@x' and 'a@x ' are listed once, 'A@x' is
\* listed beside them, the blank e-mail and the form with 'N' are left out
C18_Witness ==
  /\ calc.op = "stats" /\ Len(sheet) = 6 /\ calc.stats.forms = 5
  /\ calc.stats.newsletterEmails = << <<"a", "@", "x">>, <<"A", "@", "x">> >>

\* C19: the window of getTodayPRRangeUtc starts at midnight of the current
\* day of the UTC-4 clock, that is at 04:00:00.000Z, and ends at its
\* 23:59:59.999, that is at 03:59:59.999Z of the next day (2025-12-03 gives
\* 2025-12-03T04:00:00.000Z to 2025-12-04T03:59:59.999Z), so that an instant
\* is in the window exactly when its UTC-4 date is the current UTC-4 date.
C19_DayWindow ==
  calc.op = "range" =>
    LET midnight == ((calc.now - 4 * 60 * 60) \div 86400) * 86400
    IN /\ calc.range.startUtc = midnight + 4 * 60 * 60
       /\ calc.range.endUtc = midnight + 86399 + 4 * 60 * 60
       /\ calc.range.endMs = 999

\* C20: toPR followed by formatPRDateTimeShort reads every instant on a clock
\* exactly four hours behind UTC, at any date (2025-12-03T02:05:31Z reads
\* '02/12/2025 22:05:31'), and the timestamp_pr cell of every row logged is
\* that reading of its timestamp_utc cell.
C20_FixedOffset ==
  /\ calc.op = "toPR" =>
       calc.str = formatPRDateTimeShort(DateOf("UTC", calc.t - 4 * 60 * 60))
  /\ (calc.op = "toPR" /\ calc.t = 1764727531) =>
       calc.str = <<"0", "2", "/", "1", "2", "/", "2", "0", "2", "5", " ",
                    "2", "2", ":", "0", "5", ":", "3", "1">>

\* C21: over the life of the process the hydrations read the settings sheet at
\* most once and apply what they read at most once, however the first
\* accesses overlap and whether or not the first read fails.
C21_HydratedOnce == reads <= 1 /\ applies <= 1

\* C29: once POST /admin/settings has applied and persisted an update, and
\* until the next one, the in-memory settings are the updated ones, whatever
\* hydration completes in the meantime.
C29_UpdateKept ==
  (adminUpdate.pc = "done" /\ adminUpdate.status = 200) =>
    appSettings = adminUpdate.settings

\* C28: an IP whose wrong codes since its last login or unblock reach three is
\* blocked for 30 minutes from then; a login or an admin request of an IP that
\* is blocked is answered 403, without a token, whatever code or token it
\* carries; a 401 invalid_code answer reports one or two remaining attempts.
C28_BlockedState ==
  /\ (authLog.wasBlocked /\ authLog.route \in {"/admin/auth", "ensureAdminAuth"})
       => (authLog.status = 403 /\ authLog.token = NoToken)
  /\ authLog.error = "invalid_code" =>
       (authLog.status = 401 /\ authLog.remainingAttempts \in {1, 2})
  /\ \A ip \in IPs : isBlocked(ip) => wrong[ip] >= ADMIN_MAX_ATTEMPTS
  /\ \A t \in tokens : t.iat <= clock

C28_BlockStep ==
  /\ \A ip \in IPs :
       (wrong[ip] < ADMIN_MAX_ATTEMPTS /\ wrong'[ip] >= ADMIN_MAX_ATTEMPTS) =>
         /\ ipTracker'[ip].blockedUntil = clock + ADMIN_BLOCK_MINUTES
         /\ authLog'.status = 403 /\ authLog'.error = "blocked"
  /\ \A ip \in IPs :
       (isBlocked(ip) /\ clock' < ipTracker[ip].blockedUntil) =>
         \/ ipTracker'[ip] = ipTracker[ip]
         \/ authLog'.route = "/admin/unblock"
  /\ (tokens' # tokens) =>
       (~isBlocked(authLog'.ip) /\ authLog'.code = "correct")

C28_IpBlocking == []C28_BlockedState /\ [][C28_BlockStep]_vars

\* an IP that logged in, then sent three wrong codes, is refused with the
\* correct code twenty minutes into its block
C28_Witness ==
  /\ clock = 20
  /\ authLog.route = "/admin/auth" /\ authLog.code = "correct"
  /\ authLog.wasBlocked /\ authLog.status = 403
  /\ wrong[authLog.ip] = 3
  /\ ipTracker[authLog.ip].blockedUntil = 30
  /\ [ip |-> authLog.ip, iat |-> 0] \in tokens

\* C22: the number issued to an upload is greater than the number of every
\* upload artifact that was stored before the upload arrived and has since
\* been approved (moved from Pending to Approved), also when the move lands
\* between the answers of the upload's four listings.
C22_ApprovedSeen ==
  \A s \in UploadReqs :
    req[s].pc = "create" =>
      \A i \in 1..req[s].since :
        ( /\ files[i].origin = "upload"
          /\ files[i].parents = {APPROVED} /\ ~files[i].trashed )
          => req[s].nextIndex > files[i].ticket

\* C23: the scan takes from a name that starts with T, three or more digits
\* and '-' the number those digits spell; from a name that starts with two or
\* more digits and '_' the number those digits spell; and 0 from any other
\* name and from an item without name.
C23_ExpectedIndex ==
  { <<<<"T", "0", "0", "1", "-", "a">>, 1>>,
    <<<<"T", "1", "2", "3", "4", "-">>, 1234>>,
    <<<<"T", "0", "0", "0", "-", "a">>, 0>>,
    <<<<"0", "7", "_", "x">>, 7>>,
    <<<<"1", "2", "3", "_">>, 123>> }

C23_NameIndex ==
  calc.op = "index" =>
    IF \E e \in C23_ExpectedIndex : e[1] = calc.str
    THEN <<calc.str, calc.idx>> \in C23_ExpectedIndex
    ELSE calc.idx = 0

\* 'T1234-' gave 1234
C23_Witness ==
  /\ calc.op = "index" /\ calc.idx = 1234
  /\ calc.str = <<"T", "1", "2", "3", "4", "-">>

\* the events of the last statistics that computePrimeHour puts in bucket h
\* (the hour the server reads from toPR)
EventsInBucket(h) ==
  Cardinality({k \in 1..Len(calc.stats.eventsForPrimeHour) :
                 toPR(calc.stats.eventsForPrimeHour[k].t).hours = h})

FullestBuckets ==
  {h \in 0..23 : /\ EventsInBucket(h) > 0
                 /\ \A g \in 0..23 : EventsInBucket(g) <= EventsInBucket(h)}

\* C24 as stated: when several hours tie for the largest count, computePrimeHour
\* returns the tied hour whose first event comes first in the list of events.
C24_FirstSeenWins ==
  (calc.op = "stats" /\ ~calc.prime.isNull) =>
    LET events == calc.stats.eventsForPrimeHour
        first  == CHOOSE k \in 1..Len(events) :
                    /\ toPR(events[k].t).hours \in FullestBuckets
                    /\ \A j \in 1..(k - 1) :
                         toPR(events[j].t).hours \notin FullestBuckets
    IN calc.prime.hour = toPR(events[first].t).hours

\* C24 amended: when several hours tie for the largest count, computePrimeHour
\* returns the smallest of the tied hours, whatever the order of the events.
C24_SmallestHourWins ==
  (calc.op = "stats" /\ ~calc.prime.isNull) =>
    /\ calc.prime.hour \in FullestBuckets
    /\ \A h \in FullestBuckets : calc.prime.hour <= h
    /\ calc.prime.count = EventsInBucket(calc.prime.hour)

\* one event at 14:20 listed before one at 09:10: hour 9 is returned
C24_Witness ==
  /\ calc.op = "stats" /\ zone = "UTC"
  /\ Len(calc.stats.eventsForPrimeHour) = 2
  /\ calc.stats.eventsForPrimeHour[1] = Iso(1764786000)
  /\ calc.stats.eventsForPrimeHour[2] = Iso(1764767400)
  /\ calc.prime = [isNull |-> FALSE, hour |-> 9, count |-> 1]

\* C25: the visits, forms and uploads counters and the prime hour computed
\* from a log are the same for every other order of its data rows.
C25_OrderIndependent ==
  calc.op = "stats" =>
    \A p \in Arrangements(Len(sheet) - 1) :
      LET st == getTodayStatsFromSheet(Arranged(sheet, p), calc.now)
      IN /\ st.visits = calc.stats.visits
         /\ st.forms = calc.stats.forms
         /\ st.uploads = calc.stats.uploads
         /\ computePrimeHour(st.eventsForPrimeHour) = calc.prime

\* statistics over a log whose rows are not in time order and in which two
\* hours tie with two events each
C25_Witness ==
  /\ calc.op = "stats"
  /\ Len(sheet) = 5
  /\ sheet[2].utc.t > sheet[3].utc.t
  /\ calc.stats.visits = 1 /\ calc.stats.forms = 2 /\ calc.stats.uploads = 1
  /\ calc.prime = [isNull |-> FALSE, hour |-> 9, count |-> 2]

PublicKinds == {"ping", "upload", "visit"}

\* C26 as stated: in a state where appEnabled is false no step of a POST
\* /ping, /upload or /visit request creates a file, appends a log row or
\* sends an e-mail.
C26_NoEffectWhileOff ==
  [][\A s \in Slots :
       (~appEnabled /\ req[s].kind \in PublicKinds /\ ~Free(s)
          /\ req'[s] # req[s])
       => /\ files' = files
          /\ sheet' = sheet
          /\ ~(req[s].pc = "mail" /\ req'[s].resp.status = 200)]_vars

\* C26 amended: a POST /ping, /upload or /visit that arrives while appEnabled
\* is false is answered 503 at once, with no ticket, no file, no log row and
\* no e-mail.
C26_RefusedWhileOff ==
  [][\A s \in Slots :
       (~appEnabled /\ Fresh(s) /\ req'[s] # req[s]
          /\ req'[s].kind \in PublicKinds)
       => /\ req'[s].pc = "done"
          /\ req'[s].resp.status = 503
          /\ req'[s].resp.error = "app_offline"
          /\ req'[s].nextIndex = 0
          /\ req'[s].logged = "none"
          /\ files' = files
          /\ sheet' = sheet]_vars

\* a visit refused while the app is off, after a ping was logged
C26_Witness ==
  /\ ~appEnabled
  /\ Len(sheet) = 2
  /\ \E s \in Slots : /\ req[s].kind = "visit" /\ req[s].pc = "done"
                      /\ req[s].resp.status = 503
                      /\ req[s].logged = "none"

\* a step of the POST /admin/shutdown request in slot s
ShutdownStep(s) == req'[s].kind = "shutdown" /\ req'[s] # req[s]

\* C27: POST /admin/shutdown builds its report from the log as it is before
\* the request clears anything, and returns that report; the log and the
\* files change only after the report is built; a request refused for its
\* access code (400, 401) or whose statistics fetch fails (500) leaves the
\* log, the files and appEnabled as they are.
C27_ReportThenCleanup ==
  [][\A s \in Slots :
       ShutdownStep(s) =>
         LET r == req[s]
             n == req'[s]
             untouched == /\ sheet' = sheet /\ files' = files
                          /\ appEnabled' = appEnabled
         IN /\ Free(s) =>
                 /\ untouched
                 /\ \/ n.pc = "sd_stats"
                    \/ n.pc = "done" /\ n.resp.status \in {400, 401}
            /\ (~Free(s) /\ r.pc = "sd_stats") =>
                 \/ /\ n.pc = "done" /\ n.resp.status = 500
                    /\ untouched
                 \/ /\ n.pc # "done"
                    /\ \E now \in ClockInstants :
                         n.resp.report = getTodayStats(sheet, now)
                    /\ sheet' = sheet /\ files' = files /\ ~appEnabled'
            /\ (~Free(s) /\ r.pc # "sd_stats") =>
                 /\ n.resp.report = r.resp.report
                 /\ n.pc = "done" => n.resp.status = 200]_vars

\* a shutdown answered with a report that counts the visit and the form the
\* sheet held, the sheet now cleared and the app off
C27_Witness ==
  \E s \in Slots :
    /\ req[s].kind = "shutdown" /\ req[s].pc = "done"
    /\ req[s].resp.status = 200
    /\ req[s].resp.report.visits = 1 /\ req[s].resp.report.forms = 1
    /\ DataRows(sheet) = <<>>
    /\ ~appEnabled

\* the date YYYY-MM-DD in Puerto Rico (UTC-4) at the instant t
PRDateOf(t) ==
  LET c == CivilFromDays((t - 4 * 60 * 60) \div 86400)
  IN NumToStr(c.year) \o <<"-">> \o Pad2(c.month) \o <<"-">> \o Pad2(c.date)

SetOf(list) == {list[i] : i \in 1..Len(list)}

\* C30: over a log written by logEventToSheet, the report POST
\* /session-report-date gives for the date of today in Puerto Rico has the
\* visits, forms and uploads counts and the set of newsletter e-mails that
\* getTodayStatsFromSheet returns at that moment.
C30_ReportMatchesToday ==
  (calc.op = "reportDate" /\ calc.status = 200) =>
    \A now \in ReportInstants :
      calc.str = PRDateOf(now) =>
        LET st == getTodayStatsFromSheet(sheet, now)
        IN /\ calc.report.visits = st.visits
           /\ calc.report.forms = st.forms
           /\ calc.report.uploads = st.uploads
           /\ SetOf(calc.report.newsletterEmails) = SetOf(st.newsletterEmails)

====
